---- MODULE Spec2Model ----
(***************************************************************************)
(* Order management system: the Order aggregate, the InventoryItem stock   *)
(* ledger, the InventoryReservationService and the application handlers    *)
(* that coordinate them over the order and inventory repositories.         *)
(*                                                                         *)
(* Money amounts are exact decimals with two places; they are modelled as  *)
(* integer cents.  An Order whose id is None is modelled with id 0.        *)
(* A dict is modelled as the sequence of its (key, value) entries in       *)
(* insertion order, with distinct keys.                                    *)
(***************************************************************************)
EXTENDS Integers, Sequences, FiniteSets, TLC

\* ------------------------------------------------------------------------
\* Bounds of the model
\* ------------------------------------------------------------------------
MaxLines == 2
MaxQty == 2
MaxStock == 3
MaxOrders == 1
MaxProducts == 2
MaxSaved == 3
MaxCents == 4

\* ------------------------------------------------------------------------
\* Program constants
\* ------------------------------------------------------------------------
MIN_ORDER_TOTAL == 1000
MAX_LINE_ITEMS == 50

OK == "ok"
ValidationError == "ValidationError"
EntityNotFoundError == "EntityNotFoundError"

DRAFT == "DRAFT"
CONFIRMED == "CONFIRMED"
PARTIALLY_FULFILLED == "PARTIALLY_FULFILLED"
FULFILLED == "FULFILLED"
CANCELLED == "CANCELLED"
OrderStatus == {DRAFT, CONFIRMED, PARTIALLY_FULFILLED, FULFILLED, CANCELLED}

\* The catalog: product ids are numeric strings; prices in cents, one below
\* and one above the minimum order total.
Products == {"1", "2"}
ProductName == [p \in Products |-> IF p = "1" THEN "Widget" ELSE "Gadget"]
Price == [p \in Products |-> IF p = "1" THEN 500 ELSE 1500]

\* Customer names handed to Order.create, and str.strip on them and on the
\* product names handed to the catalog.
CustomerNames == {"Alice", " Alice ", "   ", ""}
strip(s) ==
    CASE s \in {"Alice", " Alice "} -> "Alice"
      [] s \in {"Widget", " Widget "} -> "Widget"
      [] s \in {"   ", ""} -> ""
      [] OTHER -> s

\* ------------------------------------------------------------------------
\* OrderLineItem
\* ------------------------------------------------------------------------
OrderLineItem(pid, name, qty, price) ==
    [product_id |-> pid, product_name |-> name, quantity |-> qty,
     unit_price |-> price, shipped_quantity |-> 0]

\* Faulty variant: bills what is left to ship instead of what was ordered.
line_total_of_remaining(item) ==
    item.unit_price * (item.quantity - item.shipped_quantity)

line_total(item) == item.unit_price * item.quantity

remaining_quantity(item) == item.quantity - item.shipped_quantity

is_fully_shipped(item) == remaining_quantity(item) = 0

\* Faulty variant: ship without the check against remaining_quantity.
ship_unchecked(item, qty) ==
    IF qty <= 0 THEN [item |-> item, err |-> ValidationError]
    ELSE [item |-> [item EXCEPT !.shipped_quantity = @ + qty], err |-> OK]

\* Faulty variant: ship that ships what is left when asked for more.
ship_capped(item, qty) ==
    IF qty <= 0 THEN [item |-> item, err |-> ValidationError]
    ELSE IF qty > item.quantity - item.shipped_quantity
         THEN [item |-> [item EXCEPT !.shipped_quantity = item.quantity],
               err |-> OK]
    ELSE [item |-> [item EXCEPT !.shipped_quantity = @ + qty], err |-> OK]

\* OrderLineItem.ship: the item after the call and the error raised, if any.
ship(item, qty) ==
    IF qty <= 0 THEN [item |-> item, err |-> ValidationError]
    ELSE IF qty > remaining_quantity(item)
         THEN [item |-> item, err |-> ValidationError]
    ELSE [item |-> [item EXCEPT !.shipped_quantity = @ + qty], err |-> OK]

\* ------------------------------------------------------------------------
\* Order aggregate
\* ------------------------------------------------------------------------
RECURSIVE SumLineTotals(_, _)
SumLineTotals(items, acc) ==
    IF items = <<>> THEN acc
    ELSE SumLineTotals(Tail(items), acc + line_total(Head(items)))

total(order) == SumLineTotals(order.items, 0)

has_shipments(order) ==
    \E i \in 1..Len(order.items) : order.items[i].shipped_quantity > 0

\* Order.create: the new order (id None = 0) or the error raised.
NoOrder == [id |-> 0, customer_name |-> "", status |-> DRAFT, items |-> <<>>]

\* Faulty variant: create that rejects a total equal to the minimum.
Order_create_above_minimum(customer_name, items) ==
    IF customer_name = "" \/ strip(customer_name) = ""
    THEN [order |-> NoOrder, err |-> ValidationError]
    ELSE IF items = <<>> THEN [order |-> NoOrder, err |-> ValidationError]
    ELSE IF Len(items) > MAX_LINE_ITEMS
         THEN [order |-> NoOrder, err |-> ValidationError]
    ELSE LET order == [id |-> 0, customer_name |-> strip(customer_name),
                       status |-> DRAFT, items |-> items]
         IN  IF total(order) <= MIN_ORDER_TOTAL
             THEN [order |-> NoOrder, err |-> ValidationError]
             ELSE [order |-> order, err |-> OK]

Order_create(customer_name, items) ==
    IF customer_name = "" \/ strip(customer_name) = ""
    THEN [order |-> NoOrder, err |-> ValidationError]
    ELSE IF items = <<>> THEN [order |-> NoOrder, err |-> ValidationError]
    ELSE IF Len(items) > MAX_LINE_ITEMS
         THEN [order |-> NoOrder, err |-> ValidationError]
    ELSE LET order == [id |-> 0, customer_name |-> strip(customer_name),
                       status |-> DRAFT, items |-> items]
         IN  IF total(order) < MIN_ORDER_TOTAL
             THEN [order |-> NoOrder, err |-> ValidationError]
             ELSE [order |-> order, err |-> OK]

\* Faulty variant: confirm without the status check.
Order_confirm_unguarded(order) ==
    [order |-> [order EXCEPT !.status = CONFIRMED], err |-> OK]

\* Faulty variant: confirm that checks the status but rejects DRAFT too late: it
\* accepts an order that is already CONFIRMED.
Order_confirm_twice(order) ==
    IF order.status \notin {DRAFT, CONFIRMED}
    THEN [order |-> order, err |-> ValidationError]
    ELSE [order |-> [order EXCEPT !.status = CONFIRMED], err |-> OK]

\* Order.confirm
Order_confirm(order) ==
    IF order.status # DRAFT THEN [order |-> order, err |-> ValidationError]
    ELSE [order |-> [order EXCEPT !.status = CONFIRMED], err |-> OK]

\* Order._find_item: index of the first line with the product id, 0 if none.
RECURSIVE FindFrom(_, _, _)
FindFrom(items, product_id, i) ==
    IF i > Len(items) THEN 0
    ELSE IF items[i].product_id = product_id THEN i
    ELSE FindFrom(items, product_id, i + 1)

find_item(items, product_id) == FindFrom(items, product_id, 1)

\* The shipping loop of Order.fulfill_items: entries are applied in dict
\* order; the first failing entry raises and leaves the earlier ones applied.
\* The text of the ValidationError that ship raises (the dash of the source
\* text is written "-").
ship_message(item, qty) ==
    IF qty <= 0 THEN "Ship quantity must be positive"
    ELSE "Cannot ship " \o ToString(qty) \o " of " \o item.product_name
           \o " - only " \o ToString(remaining_quantity(item)) \o " remaining"

\* Faulty variant: a shipping loop that undoes the earlier entries when an
\* entry fails.
RECURSIVE ShipAllOrNone(_, _, _)
ShipAllOrNone(before, items, quantities) ==
    IF quantities = <<>> THEN [items |-> items, err |-> OK, msg |-> ""]
    ELSE LET e == Head(quantities)
             i == find_item(items, e.product_id)
         IN  IF i = 0
             THEN [items |-> before, err |-> ValidationError, msg |-> ""]
             ELSE LET r == ship(items[i], e.qty)
                  IN  IF r.err # OK
                      THEN [items |-> before, err |-> r.err, msg |-> ""]
                      ELSE ShipAllOrNone(before, [items EXCEPT ![i] = r.item],
                                         Tail(quantities))

ShipEach_rollback(items, quantities) == ShipAllOrNone(items, items, quantities)

RECURSIVE ShipEach(_, _)
ShipEach(items, quantities) ==
    IF quantities = <<>> THEN [items |-> items, err |-> OK, msg |-> ""]
    ELSE LET e == Head(quantities)
             i == find_item(items, e.product_id)
         IN  IF i = 0
             THEN [items |-> items, err |-> ValidationError,
                   msg |-> "Product ID '" \o e.product_id
                             \o "' not found in this order"]
             ELSE LET r == ship(items[i], e.qty)
                  IN  IF r.err # OK
                      THEN [items |-> items, err |-> r.err,
                            msg |-> ship_message(items[i], e.qty)]
                      ELSE ShipEach([items EXCEPT ![i] = r.item],
                                    Tail(quantities))

\* Faulty variant: any() where the code says all().
AnyFullyShipped(items) ==
    \E i \in 1..Len(items) : items[i].quantity - items[i].shipped_quantity = 0

AllFullyShipped(items) ==
    \A i \in 1..Len(items) : is_fully_shipped(items[i])

\* Faulty variant: fulfill_items that ships first and checks afterwards.
Order_fulfill_items_ship_first(order, quantities) ==
    LET r == ShipEach(order.items, quantities)
        shipped == [order EXCEPT !.items = r.items]
    IN  IF order.status = FULFILLED
        THEN [order |-> shipped, err |-> ValidationError,
              msg |-> "Order already fulfilled"]
        ELSE IF order.status \notin {CONFIRMED, PARTIALLY_FULFILLED}
             THEN [order |-> shipped, err |-> ValidationError,
                   msg |-> "Cannot fulfill order in " \o order.status
                             \o " status"]
        ELSE IF quantities = <<>>
             THEN [order |-> shipped, err |-> ValidationError,
                   msg |-> "Must specify at least one item to fulfill"]
        ELSE IF r.err # OK
             THEN [order |-> shipped, err |-> r.err, msg |-> r.msg]
        ELSE [order |-> [shipped EXCEPT
                           !.status = IF AllFullyShipped(r.items)
                                      THEN FULFILLED
                                      ELSE PARTIALLY_FULFILLED],
              err |-> OK, msg |-> ""]

\* Order.fulfill_items; msg is the text of the ValidationError raised.
Order_fulfill_items(order, quantities) ==
    IF order.status = FULFILLED
    THEN [order |-> order, err |-> ValidationError,
          msg |-> "Order already fulfilled"]
    ELSE IF order.status \notin {CONFIRMED, PARTIALLY_FULFILLED}
         THEN [order |-> order, err |-> ValidationError,
               msg |-> "Cannot fulfill order in " \o order.status
                         \o " status"]
    ELSE IF quantities = <<>>
         THEN [order |-> order, err |-> ValidationError,
               msg |-> "Must specify at least one item to fulfill"]
    ELSE LET r == ShipEach(order.items, quantities)
         IN  IF r.err # OK
             THEN [order |-> [order EXCEPT !.items = r.items], err |-> r.err,
                   msg |-> r.msg]
             ELSE [order |-> [order EXCEPT
                                !.items = r.items,
                                !.status = IF AllFullyShipped(r.items)
                                           THEN FULFILLED
                                           ELSE PARTIALLY_FULFILLED],
                   err |-> OK, msg |-> ""]

\* The dict comprehension {product_id: remaining_quantity for items with
\* remaining_quantity > 0}: a repeated key keeps its first position and takes
\* the last value.
RECURSIVE KeyIndex(_, _, _)
KeyIndex(entries, product_id, i) ==
    IF i > Len(entries) THEN 0
    ELSE IF entries[i].product_id = product_id THEN i
    ELSE KeyIndex(entries, product_id, i + 1)

DictPut(entries, product_id, qty) ==
    LET i == KeyIndex(entries, product_id, 1)
    IN  IF i = 0 THEN Append(entries, [product_id |-> product_id, qty |-> qty])
        ELSE [entries EXCEPT ![i].qty = qty]

RECURSIVE RemainingFrom(_, _)
RemainingFrom(items, acc) ==
    IF items = <<>> THEN acc
    ELSE LET item == Head(items)
         IN  IF remaining_quantity(item) > 0
             THEN RemainingFrom(Tail(items),
                      DictPut(acc, item.product_id, remaining_quantity(item)))
             ELSE RemainingFrom(Tail(items), acc)

RemainingQuantities(items) == RemainingFrom(items, <<>>)

\* Order.fulfill
Order_fulfill(order) ==
    Order_fulfill_items(order, RemainingQuantities(order.items))

\* Faulty variant: cancel without the check for FULFILLED.
Order_cancel_fulfilled(order) ==
    IF order.status = CANCELLED THEN [order |-> order, err |-> ValidationError]
    ELSE [order |-> [order EXCEPT !.status = CANCELLED], err |-> OK]

\* Faulty variant: cancel that also wipes the shipment record of every line.
Order_cancel_unship(order) ==
    IF order.status = CANCELLED THEN [order |-> order, err |-> ValidationError]
    ELSE IF order.status = FULFILLED
         THEN [order |-> order, err |-> ValidationError]
    ELSE [order |-> [order EXCEPT
                       !.status = CANCELLED,
                       !.items = [i \in 1..Len(order.items) |->
                                    [order.items[i] EXCEPT
                                       !.shipped_quantity = 0]]],
          err |-> OK]

\* Order.cancel
Order_cancel(order) ==
    IF order.status = CANCELLED THEN [order |-> order, err |-> ValidationError]
    ELSE IF order.status = FULFILLED
         THEN [order |-> order, err |-> ValidationError]
    ELSE [order |-> [order EXCEPT !.status = CANCELLED], err |-> OK]

\* ------------------------------------------------------------------------
\* InventoryItem
\* ------------------------------------------------------------------------
InventoryItem(tot, res) == [total_quantity |-> tot, reserved_quantity |-> res]

available_quantity(inv) == inv.total_quantity - inv.reserved_quantity

\* Faulty variant: reserve that checks the request against total_quantity.
reserve_within_total(inv, quantity) ==
    IF quantity <= 0 THEN [inv |-> inv, err |-> ValidationError]
    ELSE IF quantity > inv.total_quantity
         THEN [inv |-> inv, err |-> ValidationError]
    ELSE [inv |-> [inv EXCEPT !.reserved_quantity = @ + quantity], err |-> OK]

\* InventoryItem.reserve
reserve(inv, quantity) ==
    IF quantity <= 0 THEN [inv |-> inv, err |-> ValidationError]
    ELSE IF quantity > available_quantity(inv)
         THEN [inv |-> inv, err |-> ValidationError]
    ELSE [inv |-> [inv EXCEPT !.reserved_quantity = @ + quantity], err |-> OK]

\* Faulty variant: release without the check against reserved_quantity.
release_unchecked(inv, quantity) ==
    IF quantity <= 0 THEN [inv |-> inv, err |-> ValidationError]
    ELSE [inv |-> [inv EXCEPT !.reserved_quantity = @ - quantity], err |-> OK]

\* Faulty variant: release that drops the whole reservation.
release_all(inv, quantity) ==
    IF quantity <= 0 THEN [inv |-> inv, err |-> ValidationError]
    ELSE IF quantity > inv.reserved_quantity
         THEN [inv |-> inv, err |-> ValidationError]
    ELSE [inv |-> [inv EXCEPT !.reserved_quantity = 0], err |-> OK]

\* InventoryItem.release
release(inv, quantity) ==
    IF quantity <= 0 THEN [inv |-> inv, err |-> ValidationError]
    ELSE IF quantity > inv.reserved_quantity
         THEN [inv |-> inv, err |-> ValidationError]
    ELSE [inv |-> [inv EXCEPT !.reserved_quantity = @ - quantity], err |-> OK]

\* Faulty variant: fulfill that deducts the stock but keeps the reservation.
fulfill_total_only(inv, quantity) ==
    IF quantity <= 0 THEN [inv |-> inv, err |-> ValidationError]
    ELSE IF quantity > inv.reserved_quantity
         THEN [inv |-> inv, err |-> ValidationError]
    ELSE [inv |-> [inv EXCEPT !.total_quantity = @ - quantity], err |-> OK]

\* Faulty variant: fulfill that drops the reservation but keeps the stock.
fulfill_reserved_only(inv, quantity) ==
    IF quantity <= 0 THEN [inv |-> inv, err |-> ValidationError]
    ELSE IF quantity > inv.reserved_quantity
         THEN [inv |-> inv, err |-> ValidationError]
    ELSE [inv |-> [inv EXCEPT !.reserved_quantity = @ - quantity], err |-> OK]

\* InventoryItem.fulfill
fulfill(inv, quantity) ==
    IF quantity <= 0 THEN [inv |-> inv, err |-> ValidationError]
    ELSE IF quantity > inv.reserved_quantity
         THEN [inv |-> inv, err |-> ValidationError]
    ELSE [inv |-> [inv EXCEPT !.reserved_quantity = @ - quantity,
                              !.total_quantity = @ - quantity],
          err |-> OK]

\* ------------------------------------------------------------------------
\* Inventory repository.  The store maps the product ids that have a record
\* to the record.  The JSON repository hands out a fresh copy on every
\* get_by_product_id and writes on save; the in-memory repository of the
\* tests hands out the stored object itself, so a mutation is visible at once.
\* ------------------------------------------------------------------------
JSON == "json"
FAKE == "fake"
RepoKinds == {JSON, FAKE}

\* ------------------------------------------------------------------------
\* InventoryReservationService
\* ------------------------------------------------------------------------
\* Faulty variant of phase 1: every record is looked up before any quantity
\* is compared.
RECURSIVE MissingRecord(_, _)
MissingRecord(store, items) ==
    IF items = <<>> THEN FALSE
    ELSE Head(items).product_id \notin DOMAIN store
           \/ MissingRecord(store, Tail(items))

RECURSIVE ShortOfStock(_, _)
ShortOfStock(store, items) ==
    IF items = <<>> THEN FALSE
    ELSE Head(items).quantity
             > store[Head(items).product_id].total_quantity
                 - store[Head(items).product_id].reserved_quantity
           \/ ShortOfStock(store, Tail(items))

ValidateLines_lookup_first(store, items) ==
    IF MissingRecord(store, items) THEN EntityNotFoundError
    ELSE IF ShortOfStock(store, items) THEN ValidationError
    ELSE OK

\* Phase 1 of reserve_for_order: the first offending line decides the error.
RECURSIVE ValidateLines(_, _)
ValidateLines(store, items) ==
    IF items = <<>> THEN OK
    ELSE LET line == Head(items)
         IN  IF line.product_id \notin DOMAIN store THEN EntityNotFoundError
             ELSE IF line.quantity > available_quantity(store[line.product_id])
                  THEN ValidationError
             ELSE ValidateLines(store, Tail(items))

\* Phase 2 of reserve_for_order: reserve() on the object loaded in phase 1
\* and save it.  With the JSON repository that object is the copy read before
\* any write; with the in-memory repository it is the stored object.
RECURSIVE ReserveLines(_, _, _, _)
ReserveLines(kind, loaded, store, items) ==
    IF items = <<>> THEN [store |-> store, err |-> OK]
    ELSE LET line == Head(items)
             inv == IF kind = JSON THEN loaded[line.product_id]
                                   ELSE store[line.product_id]
             r == reserve(inv, line.quantity)
         IN  IF r.err # OK THEN [store |-> store, err |-> r.err]
             ELSE ReserveLines(kind, loaded,
                               [store EXCEPT ![line.product_id] = r.inv],
                               Tail(items))

Svc_reserve_for_order(kind, store, order) ==
    LET v == ValidateLines(store, order.items)
    IN  IF v # OK THEN [store |-> store, err |-> v]
        ELSE ReserveLines(kind, store, store, order.items)

\* release_for_order: load, release(remaining_quantity), save, line by line.
RECURSIVE ReleaseLines(_, _)
ReleaseLines(store, items) ==
    IF items = <<>> THEN [store |-> store, err |-> OK]
    ELSE LET line == Head(items)
             qty == remaining_quantity(line)
         IN  IF qty <= 0 THEN ReleaseLines(store, Tail(items))
             ELSE IF line.product_id \notin DOMAIN store
                  THEN [store |-> store, err |-> EntityNotFoundError]
             ELSE LET r == release(store[line.product_id], qty)
                  IN  IF r.err # OK THEN [store |-> store, err |-> r.err]
                      ELSE ReleaseLines(
                               [store EXCEPT ![line.product_id] = r.inv],
                               Tail(items))

\* Faulty variant: release_for_order that releases the ordered quantity of
\* every line, shipped or not.
Svc_release_ordered(store, order) ==
    ReleaseLines(store, [i \in 1..Len(order.items) |->
                           [order.items[i] EXCEPT !.shipped_quantity = 0]])

Svc_release_for_order(store, order) == ReleaseLines(store, order.items)

\* Faulty variant: a deduction loop that saves nothing when an entry fails.
RECURSIVE FulfillAllOrNone(_, _, _)
FulfillAllOrNone(before, store, quantities) ==
    IF quantities = <<>> THEN [store |-> store, err |-> OK]
    ELSE LET e == Head(quantities)
         IN  IF e.product_id \notin DOMAIN store
             THEN [store |-> before, err |-> EntityNotFoundError]
             ELSE LET r == fulfill(store[e.product_id], e.qty)
                  IN  IF r.err # OK THEN [store |-> before, err |-> r.err]
                      ELSE FulfillAllOrNone(
                               before,
                               [store EXCEPT ![e.product_id] = r.inv],
                               Tail(quantities))

Svc_fulfill_items_atomic(store, quantities) ==
    FulfillAllOrNone(store, store, quantities)

\* fulfill_items of the service: load, fulfill(qty), save, entry by entry.
RECURSIVE Svc_fulfill_items(_, _)
Svc_fulfill_items(store, quantities) ==
    IF quantities = <<>> THEN [store |-> store, err |-> OK]
    ELSE LET e == Head(quantities)
         IN  IF e.product_id \notin DOMAIN store
             THEN [store |-> store, err |-> EntityNotFoundError]
             ELSE LET r == fulfill(store[e.product_id], e.qty)
                  IN  IF r.err # OK THEN [store |-> store, err |-> r.err]
                      ELSE Svc_fulfill_items(
                               [store EXCEPT ![e.product_id] = r.inv],
                               Tail(quantities))

Svc_fulfill_for_order(store, order) ==
    Svc_fulfill_items(store, RemainingQuantities(order.items))

\* ------------------------------------------------------------------------
\* Product repository (read side): get_by_name matches case-insensitively.
\* ------------------------------------------------------------------------
SpecNames == {"widget", "Gadget", "Gizmo"}

lower(name) ==
    CASE name \in {"Widget", "widget"} -> "widget"
      [] name \in {"Gadget", "gadget"} -> "gadget"
      [] name = " Widget " -> " widget "
      [] name \in {"   ", ""} -> name
      [] OTHER -> "gizmo"

\* The product ids whose name matches; the catalog has no two such products.
ProductsNamed(name) ==
    {p \in Products : lower(ProductName[p]) = lower(name)}

\* The product repository holds its products in insertion order (a dict keyed
\* by id); the catalog of the handler tests.
Product(id, name, price) == [id |-> id, name |-> name, price |-> price]

Catalog == <<Product("1", "Widget", 500), Product("2", "Gadget", 1500)>>

RECURSIVE NameIndex(_, _, _)
NameIndex(products, name, i) ==
    IF i > Len(products) THEN 0
    ELSE IF lower(products[i].name) = lower(name) THEN i
    ELSE NameIndex(products, name, i + 1)

\* get_by_name: index of the first product whose name matches, 0 for None.
product_get_by_name(products, name) == NameIndex(products, name, 1)

RECURSIVE IdIndex(_, _, _)
IdIndex(products, product_id, i) ==
    IF i > Len(products) THEN 0
    ELSE IF products[i].id = product_id THEN i
    ELSE IdIndex(products, product_id, i + 1)

\* get_by_id: index of the product with the id, 0 for None.
product_get_by_id(products, product_id) == IdIndex(products, product_id, 1)

\* save: products[product.id] = product.
product_save(products, product) ==
    LET i == IdIndex(products, product.id, 1)
    IN  IF i # 0 THEN [products EXCEPT ![i] = product]
        ELSE Append(products, product)

\* ------------------------------------------------------------------------
\* Order repository.  The stored orders are kept in the order they were
\* first saved; ids are never removed, so ids are 1..Len.  The JSON file
\* holds the raw form of an order, the in-memory store the object itself.
\* ------------------------------------------------------------------------
to_raw(order) ==
    [id |-> order.id,
     customer_name |-> order.customer_name,
     status |-> order.status,
     items |-> [i \in 1..Len(order.items) |->
                  [product_id |-> order.items[i].product_id,
                   product_name |-> order.items[i].product_name,
                   quantity |-> order.items[i].quantity,
                   unit_price |-> order.items[i].unit_price]]]

to_domain(raw) ==
    [id |-> raw.id,
     customer_name |-> raw.customer_name,
     status |-> raw.status,
     items |-> [i \in 1..Len(raw.items) |->
                  OrderLineItem(raw.items[i].product_id,
                                raw.items[i].product_name,
                                raw.items[i].quantity,
                                raw.items[i].unit_price)]]

RECURSIVE MaxId(_, _)
MaxId(orders, m) ==
    IF orders = <<>> THEN m
    ELSE MaxId(Tail(orders), IF Head(orders).id > m THEN Head(orders).id ELSE m)

\* Faulty variant: a next id that never moves on.
next_id_stale(orders) == 1

\* next_id: max stored id + 1 (JSON); the in-memory counter, which starts at
\* 1 and grows by one with every id it hands out, has the same value.
next_id(orders) == IF orders = <<>> THEN 1 ELSE MaxId(orders, 0) + 1

RECURSIVE IndexOfId(_, _, _)
IndexOfId(orders, order_id, i) ==
    IF i > Len(orders) THEN 0
    ELSE IF orders[i].id = order_id THEN i
    ELSE IndexOfId(orders, order_id, i + 1)

\* get_by_id; the caller checks for None with HasOrder.
HasOrder(orders, order_id) == IndexOfId(orders, order_id, 1) # 0

get_by_id(kind, orders, order_id) ==
    LET stored == orders[IndexOfId(orders, order_id, 1)]
    IN  IF kind = JSON THEN to_domain(stored) ELSE stored

\* save: assign an id if the order has none, then upsert.
save(kind, orders, order) ==
    LET o == IF order.id = 0 THEN [order EXCEPT !.id = next_id(orders)]
             ELSE order
        stored == IF kind = JSON THEN to_raw(o) ELSE o
        i == IndexOfId(orders, o.id, 1)
    IN  IF i # 0 THEN [orders EXCEPT ![i] = stored]
        ELSE Append(orders, stored)

\* What the repository holds after a handler changed a loaded order without
\* saving it: the in-memory store holds that very object.
Unsaved(kind, orders, order) ==
    IF kind = FAKE THEN [orders EXCEPT ![IndexOfId(orders, order.id, 1)] = order]
    ELSE orders

\* ------------------------------------------------------------------------
\* Application handlers: the repositories after the call and the error raised
\* ------------------------------------------------------------------------
\* The loop of CreateOrderHandler.handle that builds the line items.
RECURSIVE BuildLines(_, _, _)
BuildLines(products, item_specs, acc) ==
    IF item_specs = <<>> THEN [items |-> acc, err |-> OK]
    ELSE LET spec == Head(item_specs)
             i == product_get_by_name(products, spec.product_name)
         IN  IF i = 0 THEN [items |-> acc, err |-> EntityNotFoundError]
             ELSE IF spec.quantity <= 0
                  THEN [items |-> acc, err |-> ValidationError]
             ELSE BuildLines(products, Tail(item_specs),
                      Append(acc, OrderLineItem(products[i].id,
                                                products[i].name,
                                                spec.quantity,
                                                products[i].price)))

CreateOrderHandler_handle(kind, products, orders, inv, customer_name, item_specs) ==
    LET b == BuildLines(products, item_specs, <<>>)
    IN  IF b.err # OK THEN [orders |-> orders, inv |-> inv, err |-> b.err]
        ELSE LET c == Order_create(customer_name, b.items)
             IN  IF c.err # OK
                 THEN [orders |-> orders, inv |-> inv, err |-> c.err]
                 ELSE [orders |-> save(kind, orders, c.order), inv |-> inv,
                       err |-> OK]

ConfirmOrderHandler_handle(kind, orders, inv, order_id) ==
    IF ~HasOrder(orders, order_id)
    THEN [orders |-> orders, inv |-> inv, err |-> EntityNotFoundError]
    ELSE LET o == get_by_id(kind, orders, order_id)
             r == Svc_reserve_for_order(kind, inv, o)
         IN  IF r.err # OK
             THEN [orders |-> orders, inv |-> r.store, err |-> r.err]
             ELSE LET c == Order_confirm(o)
                  IN  IF c.err # OK
                      THEN [orders |-> Unsaved(kind, orders, c.order),
                            inv |-> r.store, err |-> c.err]
                      ELSE [orders |-> save(kind, orders, c.order),
                            inv |-> r.store, err |-> OK]

\* FulfillOrderHandler._resolve_names_to_ids
RECURSIVE ResolveNames(_, _, _)
ResolveNames(items, name_quantities, acc) ==
    IF name_quantities = <<>> THEN [quantities |-> acc, err |-> OK]
    ELSE LET e == Head(name_quantities)
             hits == {i \in 1..Len(items) :
                        lower(items[i].product_name) = lower(e.product_name)}
         IN  IF hits = {}
             THEN [quantities |-> acc, err |-> ValidationError]
             ELSE LET i == CHOOSE x \in hits : \A y \in hits : x <= y
                  IN  ResolveNames(items, Tail(name_quantities),
                          DictPut(acc, items[i].product_id, e.qty))

resolve_names_to_ids(order, name_quantities) ==
    ResolveNames(order.items, name_quantities, <<>>)

\* partial is FALSE when partial_items is None.
FulfillOrderHandler_handle(kind, orders, inv, order_id, partial, partial_items) ==
    IF ~HasOrder(orders, order_id)
    THEN [orders |-> orders, inv |-> inv, err |-> EntityNotFoundError]
    ELSE LET o == get_by_id(kind, orders, order_id)
             q == IF partial THEN resolve_names_to_ids(o, partial_items)
                  ELSE [quantities |-> RemainingQuantities(o.items),
                        err |-> OK]
         IN  IF q.err # OK
             THEN [orders |-> orders, inv |-> inv, err |-> q.err]
             ELSE LET f == Order_fulfill_items(o, q.quantities)
                  IN  IF f.err # OK
                      THEN [orders |-> Unsaved(kind, orders, f.order),
                            inv |-> inv, err |-> f.err]
                      ELSE LET d == Svc_fulfill_items(inv, q.quantities)
                           IN  IF d.err # OK
                               THEN [orders |-> Unsaved(kind, orders, f.order),
                                     inv |-> d.store, err |-> d.err]
                               ELSE [orders |-> save(kind, orders, f.order),
                                     inv |-> d.store, err |-> OK]

CancelOrderHandler_handle(kind, orders, inv, order_id) ==
    IF ~HasOrder(orders, order_id)
    THEN [orders |-> orders, inv |-> inv, err |-> EntityNotFoundError]
    ELSE LET o == get_by_id(kind, orders, order_id)
             r == IF o.status \in {CONFIRMED, PARTIALLY_FULFILLED}
                  THEN Svc_release_for_order(inv, o)
                  ELSE [store |-> inv, err |-> OK]
         IN  IF r.err # OK
             THEN [orders |-> orders, inv |-> r.store, err |-> r.err]
             ELSE LET c == Order_cancel(o)
                  IN  IF c.err # OK
                      THEN [orders |-> Unsaved(kind, orders, c.order),
                            inv |-> r.store, err |-> c.err]
                      ELSE [orders |-> save(kind, orders, c.order),
                            inv |-> r.store, err |-> OK]

\* Faulty variant of the fulfilment step: the inventory side deducts what the
\* order still has open after the order-side call, not the quantity map.
FulfilOrderThenRemaining(order, inv, quantities) ==
    LET f == Order_fulfill_items(order, quantities)
    IN  IF f.err # OK
        THEN [order |-> f.order, inv |-> inv, err |-> f.err, calls |-> 1]
        ELSE LET d == Svc_fulfill_items(inv, RemainingQuantities(f.order.items))
             IN  [order |-> f.order, inv |-> d.store, err |-> d.err,
                  calls |-> 2]

\* The fulfilment step of the handler: order.fulfill_items(quantities), then
\* svc.fulfill_items(quantities); an exception of the first call ends the
\* step before the second call is made.
FulfilOrderFirst(order, inv, quantities) ==
    LET f == Order_fulfill_items(order, quantities)
    IN  IF f.err # OK
        THEN [order |-> f.order, inv |-> inv, err |-> f.err, calls |-> 1]
        ELSE LET d == Svc_fulfill_items(inv, quantities)
             IN  [order |-> f.order, inv |-> d.store, err |-> d.err,
                  calls |-> 2]

\* The same two calls with the inventory-side call first.
FulfilInventoryFirst(order, inv, quantities) ==
    LET d == Svc_fulfill_items(inv, quantities)
    IN  IF d.err # OK
        THEN [order |-> order, inv |-> d.store, err |-> d.err, calls |-> 1]
        ELSE LET f == Order_fulfill_items(order, quantities)
             IN  [order |-> f.order, inv |-> d.store, err |-> f.err,
                  calls |-> 2]

\* int(p.id) for the ids the catalog hands out, and max over the products.
int(id) == CHOOSE n \in 0..(MaxProducts + 1) : ToString(n) = id

RECURSIVE MaxProductId(_, _)
MaxProductId(products, m) ==
    IF products = <<>> THEN m
    ELSE MaxProductId(Tail(products),
                      IF int(Head(products).id) > m THEN int(Head(products).id)
                      ELSE m)

\* AddProductHandler.handle; price is in cents, Money rejects a negative one.
AddProductHandler_handle(products, name, price) ==
    IF name = "" \/ strip(name) = ""
    THEN [products |-> products, err |-> ValidationError]
    ELSE IF product_get_by_name(products, name) # 0
         THEN [products |-> products, err |-> ValidationError]
    ELSE LET new_id == IF products # <<>>
                       THEN ToString(MaxProductId(products, 0) + 1)
                       ELSE "1"
         IN  IF price < 0 THEN [products |-> products, err |-> ValidationError]
             ELSE [products |-> product_save(products,
                                    Product(new_id, strip(name), price)),
                   err |-> OK]

\* Faulty variant: a price update that also re-prices the lines of the stored
\* orders that carry the product.
UpdateProductHandler_retroactive(products, orders, product_id, new_price) ==
    LET i == product_get_by_id(products, product_id)
    IN  IF i = 0
        THEN [products |-> products, orders |-> orders,
              err |-> EntityNotFoundError]
        ELSE IF new_price <= 0
             THEN [products |-> products, orders |-> orders,
                   err |-> ValidationError]
        ELSE [products |-> product_save(products,
                               [products[i] EXCEPT !.price = new_price]),
              orders |-> [k \in 1..Len(orders) |->
                            [orders[k] EXCEPT !.items =
                               [j \in 1..Len(orders[k].items) |->
                                  IF orders[k].items[j].product_id = product_id
                                  THEN [orders[k].items[j] EXCEPT
                                          !.unit_price = new_price]
                                  ELSE orders[k].items[j]]]],
              err |-> OK]

\* UpdateProductHandler.handle with Product.update_price: the handler holds
\* the product repository only, the stored orders are not within its reach.
UpdateProductHandler_handle(products, orders, product_id, new_price) ==
    LET i == product_get_by_id(products, product_id)
    IN  IF i = 0
        THEN [products |-> products, orders |-> orders,
              err |-> EntityNotFoundError]
        ELSE IF new_price < 0
             THEN [products |-> products, orders |-> orders,
                   err |-> ValidationError]
        ELSE IF new_price <= 0
             THEN [products |-> products, orders |-> orders,
                   err |-> ValidationError]
        ELSE [products |-> product_save(products,
                               [products[i] EXCEPT !.price = new_price]),
              orders |-> orders,
              err |-> OK]

\* SetInventoryHandler.handle: upsert of the record's total_quantity.
SetInventoryHandler_handle(products, inv, product_name, quantity) ==
    LET i == product_get_by_name(products, product_name)
    IN  IF i = 0 THEN [inv |-> inv, err |-> EntityNotFoundError]
        ELSE LET id == products[i].id
             IN  IF id \in DOMAIN inv
                 THEN [inv |-> [inv EXCEPT ![id].total_quantity = quantity],
                       err |-> OK]
                 ELSE [inv |-> [p \in DOMAIN inv \cup {id} |->
                                  IF p = id THEN InventoryItem(quantity, 0)
                                  ELSE inv[p]],
                       err |-> OK]

\* ------------------------------------------------------------------------
\* Inputs
\* ------------------------------------------------------------------------
\* Line-item lists a caller can build from the catalog.
LineChoices ==
    {OrderLineItem(p, ProductName[p], q, Price[p]) : p \in Products, q \in 1..MaxQty}

ItemLists ==
    UNION {[1..n -> LineChoices] : n \in 1..MaxLines}

\* Quantities a caller can ask to ship, release or deduct.
QtyInputs == 0..(MaxQty + 1)

QtyEntries == {[product_id |-> p, qty |-> q] : p \in Products, q \in QtyInputs}

QuantityMaps ==
    {<<>>} \cup {<<e>> : e \in QtyEntries}
           \cup {s \in {<<e, f>> : e \in QtyEntries, f \in QtyEntries} :
                    s[1].product_id # s[2].product_id}

\* Orders that Order.create accepts.
CreatedOrders ==
    {Order_create(c, items).order :
        <<c, items>> \in {x \in CustomerNames \X ItemLists :
                            Order_create(x[1], x[2]).err = OK}}

\* Arguments of Order.create around its limits: line items priced at one
\* dollar, one cent below the minimum total and exactly the minimum; lists of
\* 0 .. MAX_LINE_ITEMS + 1 copies of one line, and short mixed lists.
CreatePrices == {100, 999, 1000}

CreateLines ==
    {OrderLineItem("1", "Widget", q, c) : q \in 1..MaxQty, c \in CreatePrices}

CreateItemLists ==
    UNION {[1..n -> {l}] : n \in 0..(MAX_LINE_ITEMS + 1), l \in CreateLines}
      \cup UNION {[1..n -> CreateLines] : n \in 1..MaxLines}

\* Inventory stores a test fixture or the set-inventory command builds:
\* some products have a record, each with nothing reserved.
InitialStores ==
    UNION {[ps -> {InventoryItem(t, 0) : t \in 1..MaxStock}] :
             ps \in SUBSET Products}

\* ------------------------------------------------------------------------
\* State
\* ------------------------------------------------------------------------
VARIABLES
    order,       \* the Order object a caller of the domain layer holds
    repoKind,    \* which repository implementation is wired in
    orderStore,  \* order repository: the stored orders, by id 1..Len
    invStore,    \* inventory repository: product id -> record
    productStore,  \* product repository: the products, in insertion order
    callerItems, \* the item list a caller of Order.create still holds
    last         \* the last call made and how it ended

vars == <<order, repoKind, orderStore, invStore, productStore, callerItems,
          last>>

Call(op, err) == [op |-> op, id |-> 0, err |-> err]
CallOn(op, id, err) == [op |-> op, id |-> id, err |-> err]
CallWith(op, args, err) == [op |-> op, id |-> 0, err |-> err, args |-> args]

\* ------------------------------------------------------------------------
\* SpecOrder: calls on one Order aggregate and on its line items
\* ------------------------------------------------------------------------
InitOrder ==
    /\ productStore = Catalog
    /\ callerItems = <<>>
    /\ order \in CreatedOrders
    /\ repoKind = FAKE
    /\ orderStore = <<>>
    /\ invStore = [p \in Products |-> InventoryItem(MaxStock, 0)]
    /\ last = Call("create", OK)

OrderConfirm ==
    LET r == Order_confirm(order)
    IN  /\ order' = r.order
        /\ last' = Call("confirm", r.err)
        /\ UNCHANGED <<repoKind, orderStore, invStore, productStore,
                         callerItems>>

OrderFulfillItems ==
    \E quantities \in QuantityMaps :
        LET r == Order_fulfill_items(order, quantities)
        IN  /\ order' = r.order
            /\ last' = Call("fulfill_items", r.err)
            /\ UNCHANGED <<repoKind, orderStore, invStore, productStore,
                         callerItems>>

OrderFulfill ==
    LET r == Order_fulfill(order)
    IN  /\ order' = r.order
        /\ last' = Call("fulfill", r.err)
        /\ UNCHANGED <<repoKind, orderStore, invStore, productStore,
                         callerItems>>

OrderCancel ==
    LET r == Order_cancel(order)
    IN  /\ order' = r.order
        /\ last' = Call("cancel", r.err)
        /\ UNCHANGED <<repoKind, orderStore, invStore, productStore,
                         callerItems>>

LineShip ==
    \E i \in 1..Len(order.items), qty \in QtyInputs :
        LET r == ship(order.items[i], qty)
        IN  /\ order' = [order EXCEPT !.items[i] = r.item]
            /\ last' = Call("ship", r.err)
            /\ UNCHANGED <<repoKind, orderStore, invStore, productStore,
                         callerItems>>

NextOrder ==
    \/ OrderConfirm
    \/ OrderFulfillItems
    \/ OrderFulfill
    \/ OrderCancel
    \/ LineShip

SpecOrder == InitOrder /\ [][NextOrder]_vars

\* ------------------------------------------------------------------------
\* Properties of the Order aggregate (SpecOrder)
\* ------------------------------------------------------------------------
OrderCalls == {"confirm", "fulfill_items", "fulfill", "cancel"}

AllowedTransitions ==
    {<<DRAFT, CONFIRMED>>,
     <<CONFIRMED, PARTIALLY_FULFILLED>>,
     <<CONFIRMED, FULFILLED>>,
     <<PARTIALLY_FULFILLED, PARTIALLY_FULFILLED>>,
     <<PARTIALLY_FULFILLED, FULFILLED>>,
     <<DRAFT, CANCELLED>>,
     <<CONFIRMED, CANCELLED>>,
     <<PARTIALLY_FULFILLED, CANCELLED>>}

ShippedQuantities(o) ==
    [i \in 1..Len(o.items) |-> o.items[i].shipped_quantity]

\* C4: every step that changes an order's status, and every successful
\* confirm / fulfill_items / fulfill / cancel call, takes the status along one
\* of the listed transitions; a failed call leaves the status as it was.
C4_OnlyListedTransitions ==
    [][/\ order'.status # order.status
          => <<order.status, order'.status>> \in AllowedTransitions
       /\ (last'.op \in OrderCalls /\ last'.err = OK)
          => <<order.status, order'.status>> \in AllowedTransitions
       /\ (last'.op \in OrderCalls /\ last'.err # OK)
          => order'.status = order.status]_vars

\* C4 witness: an order that went through fulfill_items into FULFILLED.
C4_Witness ==
    /\ order.status = FULFILLED
    /\ last.op = "fulfill_items"
    /\ last.err = OK

\* C5: once the status is FULFILLED or CANCELLED, every confirm, fulfill,
\* fulfill_items and cancel call fails with ValidationError and changes
\* neither the status nor any shipped_quantity.
C5_TerminalStates ==
    [][(order.status \in {FULFILLED, CANCELLED} /\ last'.op \in OrderCalls)
         => /\ last'.err = ValidationError
            /\ order'.status = order.status
            /\ ShippedQuantities(order') = ShippedQuantities(order)]_vars

\* C5 witness: a fulfill_items call rejected on a cancelled order that had
\* shipments.
C5_Witness ==
    /\ order.status = CANCELLED
    /\ last.op = "fulfill_items"
    /\ last.err = ValidationError
    /\ \E i \in 1..Len(order.items) : order.items[i].shipped_quantity > 0

\* C6: 0 <= shipped_quantity <= quantity for every line, after any calls.
C6_ShippedWithinOrdered ==
    \A i \in 1..Len(order.items) :
        /\ 0 <= order.items[i].shipped_quantity
        /\ order.items[i].shipped_quantity <= order.items[i].quantity

\* C6 witness: a ship call rejected on an order with a fully shipped line.
C6_Witness ==
    /\ last.op = "ship"
    /\ last.err = ValidationError
    /\ \E i \in 1..Len(order.items) :
           order.items[i].shipped_quantity = order.items[i].quantity

\* C7: after a successful fulfill_items the status is FULFILLED if every
\* line has nothing left to ship, and PARTIALLY_FULFILLED otherwise.
C7_StatusAfterFulfillItems ==
    (last.op \in {"fulfill_items", "fulfill"} /\ last.err = OK)
      => order.status =
           IF \A i \in 1..Len(order.items) :
                 order.items[i].quantity - order.items[i].shipped_quantity = 0
           THEN FULFILLED ELSE PARTIALLY_FULFILLED

\* C7 witness: a successful fulfill_items that completes one line of two.
C7_Witness ==
    /\ last.op = "fulfill_items"
    /\ last.err = OK
    /\ order.status = PARTIALLY_FULFILLED
    /\ \E i \in 1..Len(order.items) :
           order.items[i].quantity = order.items[i].shipped_quantity
    /\ \E i \in 1..Len(order.items) :
           order.items[i].quantity > order.items[i].shipped_quantity

\* C8: confirm succeeds exactly from DRAFT and then sets CONFIRMED; from any
\* other status it fails with ValidationError and changes nothing on the order.
C8_Confirm ==
    [][last'.op = "confirm"
         => IF order.status = DRAFT
            THEN /\ last'.err = OK
                 /\ order'.status = CONFIRMED
                 /\ order'.items = order.items
            ELSE /\ last'.err = ValidationError
                 /\ order' = order]_vars

\* C8 witness: a confirm rejected on an order that is already CONFIRMED.
C8_Witness ==
    /\ last.op = "confirm"
    /\ last.err = ValidationError
    /\ order.status = CONFIRMED

\* C9: cancel succeeds from DRAFT, CONFIRMED and PARTIALLY_FULFILLED and sets
\* CANCELLED, fails with ValidationError from CANCELLED and FULFILLED, and
\* never changes a line item or an inventory record.
C9_Cancel ==
    [][last'.op = "cancel"
         => /\ IF order.status \in {DRAFT, CONFIRMED, PARTIALLY_FULFILLED}
               THEN last'.err = OK /\ order'.status = CANCELLED
               ELSE last'.err = ValidationError
                    /\ order'.status = order.status
            /\ order'.items = order.items
            /\ invStore' = invStore]_vars

\* C9 witness: a partially fulfilled order that was cancelled.
C9_Witness ==
    /\ last.op = "cancel"
    /\ last.err = OK
    /\ order.status = CANCELLED
    /\ \E i \in 1..Len(order.items) :
           /\ order.items[i].shipped_quantity > 0
           /\ order.items[i].shipped_quantity < order.items[i].quantity

\* C10: no call changes the order total or any line total.
C10_TotalConstant ==
    [][/\ total(order') = total(order)
       /\ Len(order'.items) = Len(order.items)
       /\ \A i \in 1..Len(order.items) :
             line_total(order'.items[i]) = line_total(order.items[i])]_vars

\* C10 witness: an order with shipped units whose total is still the sum of
\* unit price times ordered quantity.
C10_Witness ==
    /\ last.op = "ship"
    /\ last.err = OK
    /\ \E i \in 1..Len(order.items) : order.items[i].shipped_quantity > 0
    /\ total(order) >= MIN_ORDER_TOTAL

\* C21: fulfill() on a CONFIRMED or PARTIALLY_FULFILLED order with a line
\* that has something left to ship succeeds, leaves every line fully shipped
\* and sets FULFILLED.
C21_FulfillShipsEverything ==
    [][(/\ last'.op = "fulfill"
        /\ order.status \in {CONFIRMED, PARTIALLY_FULFILLED}
        /\ \E i \in 1..Len(order.items) :
              order.items[i].quantity - order.items[i].shipped_quantity > 0)
         => /\ last'.err = OK
            /\ order'.status = FULFILLED
            /\ \A i \in 1..Len(order'.items) :
                  order'.items[i].shipped_quantity = order'.items[i].quantity]_vars

\* ------------------------------------------------------------------------
\* SpecCreate: Order.create on arguments around its limits
\* ------------------------------------------------------------------------
InitCreate ==
    /\ productStore = Catalog
    /\ callerItems = <<>>
    /\ order = NoOrder
    /\ repoKind = FAKE
    /\ orderStore = <<>>
    /\ invStore = [p \in Products |-> InventoryItem(MaxStock, 0)]
    /\ last = Call("new", OK)

\* The caller makes one call of the factory for the order it wants.
OrderCreate ==
    /\ last.op = "new"
    /\ \E customer_name \in CustomerNames, items \in CreateItemLists :
          LET r == Order_create(customer_name, items)
          IN  /\ order' = r.order
              /\ last' = CallWith("order_create",
                                  [customer_name |-> customer_name,
                                   items |-> items], r.err)
              /\ UNCHANGED <<repoKind, orderStore, invStore, productStore,
                         callerItems>>

NextCreate == OrderCreate

SpecCreate == InitCreate /\ [][NextCreate]_vars

\* Sum over the lines of unit price times ordered quantity, in cents.
RECURSIVE SumOfLines(_)
SumOfLines(items) ==
    IF items = <<>> THEN 0
    ELSE Head(items).unit_price * Head(items).quantity + SumOfLines(Tail(items))

\* C11: Order.create succeeds exactly when the trimmed customer name is
\* non-empty, there are 1 to 50 items and the line totals sum to at least
\* $10.00; then the order is DRAFT with id None and holds the items; otherwise
\* it raises ValidationError and there is no order.
C11_CreateContract ==
    last.op = "order_create"
      => IF /\ last.args.customer_name \in {"Alice", " Alice "}
            /\ Len(last.args.items) >= 1
            /\ Len(last.args.items) <= 50
            /\ SumOfLines(last.args.items) >= 1000
         THEN /\ last.err = OK
              /\ order.status = DRAFT
              /\ order.id = 0
              /\ order.customer_name = "Alice"
              /\ order.items = last.args.items
         ELSE /\ last.err = ValidationError
              /\ order = NoOrder

\* C11 witness: fifty lines of one dollar accepted under a padded name.
C11_Witness ==
    /\ last.op = "order_create"
    /\ last.err = OK
    /\ last.args.customer_name = " Alice "
    /\ Len(order.items) = 50
    /\ SumOfLines(order.items) = 5000

\* ------------------------------------------------------------------------
\* SpecItem: calls on the InventoryItem objects of an in-memory store
\* ------------------------------------------------------------------------
StockInputs == 0..(MaxStock + 1)

ValidItems == {InventoryItem(t, r) : t \in 0..MaxStock, r \in 0..MaxStock}

InitItem ==
    /\ productStore = Catalog
    /\ callerItems = <<>>
    /\ order = NoOrder
    /\ repoKind = FAKE
    /\ orderStore = <<>>
    /\ invStore \in [Products -> {i \in ValidItems :
                                    i.reserved_quantity <= i.total_quantity}]
    /\ last = Call("new", OK)

ItemReserve ==
    \E p \in DOMAIN invStore, quantity \in StockInputs :
        LET r == reserve(invStore[p], quantity)
        IN  /\ invStore' = [invStore EXCEPT ![p] = r.inv]
            /\ last' = CallWith("reserve",
                                [product_id |-> p, quantity |-> quantity],
                                r.err)
            /\ UNCHANGED <<order, repoKind, orderStore, productStore, callerItems>>

ItemRelease ==
    \E p \in DOMAIN invStore, quantity \in StockInputs :
        LET r == release(invStore[p], quantity)
        IN  /\ invStore' = [invStore EXCEPT ![p] = r.inv]
            /\ last' = CallWith("release",
                                [product_id |-> p, quantity |-> quantity],
                                r.err)
            /\ UNCHANGED <<order, repoKind, orderStore, productStore, callerItems>>

ItemFulfill ==
    \E p \in DOMAIN invStore, quantity \in StockInputs :
        LET r == fulfill(invStore[p], quantity)
        IN  /\ invStore' = [invStore EXCEPT ![p] = r.inv]
            /\ last' = CallWith("item_fulfill",
                                [product_id |-> p, quantity |-> quantity],
                                r.err)
            /\ UNCHANGED <<order, repoKind, orderStore, productStore, callerItems>>

\* reserve(quantity) and, if it did not raise, release(quantity) on the same
\* item; err is the error of the call that raised, if any.
ItemReserveRelease ==
    \E p \in DOMAIN invStore, quantity \in StockInputs :
        LET r == reserve(invStore[p], quantity)
            s == IF r.err = OK THEN release(r.inv, quantity) ELSE r
        IN  /\ invStore' = [invStore EXCEPT ![p] = s.inv]
            /\ last' = CallWith("reserve_release",
                                [product_id |-> p, quantity |-> quantity,
                                 reserve_err |-> r.err],
                                s.err)
            /\ UNCHANGED <<order, repoKind, orderStore, productStore, callerItems>>

NextItem ==
    \/ ItemReserve
    \/ ItemRelease
    \/ ItemFulfill
    \/ ItemReserveRelease

SpecItem == InitItem /\ [][NextItem]_vars

\* C3: reserved_quantity <= total_quantity (available_quantity >= 0) for
\* every InventoryItem, after any reserve / release / fulfill calls.
C3_ReservedWithinTotal ==
    \A p \in DOMAIN invStore :
        /\ invStore[p].reserved_quantity <= invStore[p].total_quantity
        /\ invStore[p].total_quantity - invStore[p].reserved_quantity >= 0

\* C3 witness: a successful fulfill on an item whose whole stock was reserved
\* and is still fully reserved afterwards.
C3_Witness ==
    /\ last.op = "item_fulfill"
    /\ last.err = OK
    /\ \E p \in DOMAIN invStore :
           /\ invStore[p].total_quantity > 0
           /\ invStore[p].reserved_quantity = invStore[p].total_quantity

\* C12: reserve(qty) raises ValidationError and leaves the item unchanged when
\* qty <= 0 or qty > available_quantity; otherwise reserved_quantity grows by
\* exactly qty and total_quantity stays.
C12_Reserve ==
    [][last'.op = "reserve"
         => LET p == last'.args.product_id
                qty == last'.args.quantity
            IN  IF qty <= 0
                   \/ qty > invStore[p].total_quantity
                             - invStore[p].reserved_quantity
                THEN /\ last'.err = ValidationError
                     /\ invStore' = invStore
                ELSE /\ last'.err = OK
                     /\ invStore'[p].reserved_quantity =
                          invStore[p].reserved_quantity + qty
                     /\ invStore'[p].total_quantity =
                          invStore[p].total_quantity
                     /\ \A o \in DOMAIN invStore \ {p} :
                           invStore'[o] = invStore[o]]_vars

\* C12 witness: a reserve of everything that was still available on an item
\* that already had a reservation.
C12_Witness ==
    /\ last.op = "reserve"
    /\ last.err = OK
    /\ LET inv == invStore[last.args.product_id]
       IN  /\ inv.reserved_quantity = inv.total_quantity
           /\ inv.reserved_quantity > last.args.quantity

\* C13: release(qty) raises ValidationError and leaves the item unchanged when
\* qty <= 0 or qty > reserved_quantity; otherwise reserved_quantity shrinks by
\* exactly qty and total_quantity stays.
C13_Release ==
    [][last'.op = "release"
         => LET p == last'.args.product_id
                qty == last'.args.quantity
            IN  IF qty <= 0 \/ qty > invStore[p].reserved_quantity
                THEN /\ last'.err = ValidationError
                     /\ invStore' = invStore
                ELSE /\ last'.err = OK
                     /\ invStore'[p].reserved_quantity =
                          invStore[p].reserved_quantity - qty
                     /\ invStore'[p].total_quantity =
                          invStore[p].total_quantity
                     /\ \A o \in DOMAIN invStore \ {p} :
                           invStore'[o] = invStore[o]]_vars

\* C13 witness: a release rejected for asking one unit more than is reserved.
C13_Witness ==
    /\ last.op = "release"
    /\ last.err = ValidationError
    /\ LET inv == invStore[last.args.product_id]
       IN  /\ inv.reserved_quantity > 0
           /\ last.args.quantity = inv.reserved_quantity + 1

\* C14: fulfill(qty) raises ValidationError and leaves the item unchanged when
\* qty <= 0 or qty > reserved_quantity; otherwise reserved_quantity and
\* total_quantity both shrink by exactly qty and available_quantity stays.
C14_Fulfill ==
    [][last'.op = "item_fulfill"
         => LET p == last'.args.product_id
                qty == last'.args.quantity
            IN  IF qty <= 0 \/ qty > invStore[p].reserved_quantity
                THEN /\ last'.err = ValidationError
                     /\ invStore' = invStore
                ELSE /\ last'.err = OK
                     /\ invStore'[p].reserved_quantity =
                          invStore[p].reserved_quantity - qty
                     /\ invStore'[p].total_quantity =
                          invStore[p].total_quantity - qty
                     /\ invStore'[p].total_quantity
                          - invStore'[p].reserved_quantity =
                        invStore[p].total_quantity
                          - invStore[p].reserved_quantity
                     /\ \A o \in DOMAIN invStore \ {p} :
                           invStore'[o] = invStore[o]]_vars

\* C14 witness: a fulfill of part of a reservation on an item that keeps
\* unreserved stock.
C14_Witness ==
    /\ last.op = "item_fulfill"
    /\ last.err = OK
    /\ LET inv == invStore[last.args.product_id]
       IN  /\ inv.reserved_quantity > 0
           /\ inv.total_quantity > inv.reserved_quantity

\* C15: whenever reserve(q) succeeds, the release(q) that follows it succeeds
\* too and the item has the reserved_quantity and total_quantity it had
\* before the reserve.
C15_ReserveThenRelease ==
    [][(last'.op = "reserve_release" /\ last'.args.reserve_err = OK)
         => /\ last'.err = OK
            /\ invStore' = invStore]_vars

\* C15 witness: a round trip on an item that already had a reservation and
\* whose remaining stock the reserve took entirely.
C15_Witness ==
    /\ last.op = "reserve_release"
    /\ last.args.reserve_err = OK
    /\ last.err = OK
    /\ LET inv == invStore[last.args.product_id]
       IN  /\ inv.reserved_quantity > 0
           /\ last.args.quantity =
                inv.total_quantity - inv.reserved_quantity

\* ------------------------------------------------------------------------
\* SpecStock: the set-inventory command and InventoryItem calls on the
\* records it creates, from an empty inventory repository
\* ------------------------------------------------------------------------
\* Quantities the set-inventory command accepts: any int.
StockLevels == (0 - 1)..(MaxStock + 1)

InitStock ==
    /\ productStore = Catalog
    /\ callerItems = <<>>
    /\ order = NoOrder
    /\ repoKind \in RepoKinds
    /\ orderStore = <<>>
    /\ invStore = [p \in {} |-> InventoryItem(0, 0)]
    /\ last = Call("new", OK)

SetInventory ==
    \E product_name \in SpecNames, quantity \in StockLevels :
        LET r == SetInventoryHandler_handle(productStore, invStore,
                                            product_name, quantity)
        IN  /\ invStore' = r.inv
            /\ last' = CallWith("set_inventory",
                                [product_name |-> product_name,
                                 quantity |-> quantity], r.err)
            /\ UNCHANGED <<order, repoKind, orderStore, productStore,
                           callerItems>>

NextStock ==
    \/ SetInventory
    \/ ItemReserve
    \/ ItemRelease
    \/ ItemFulfill

SpecStock == InitStock /\ [][NextStock]_vars

\* C22: every inventory record, in every reachable state, has
\* total_quantity >= 0, reserved_quantity >= 0 and
\* reserved_quantity <= total_quantity.
C22_RecordWithinBounds ==
    \A p \in DOMAIN invStore :
        /\ invStore[p].total_quantity >= 0
        /\ invStore[p].reserved_quantity >= 0
        /\ invStore[p].reserved_quantity <= invStore[p].total_quantity

\* ------------------------------------------------------------------------
\* SpecService: calls on the InventoryReservationService for one order,
\* whose lines the caller ships in between
\* ------------------------------------------------------------------------
InitService ==
    /\ productStore = Catalog
    /\ callerItems = <<>>
    /\ order \in CreatedOrders
    /\ repoKind \in RepoKinds
    /\ orderStore = <<>>
    /\ invStore \in InitialStores
    /\ last = Call("new", OK)

SvcReserveForOrder ==
    LET r == Svc_reserve_for_order(repoKind, invStore, order)
    IN  /\ invStore' = r.store
        /\ last' = Call("reserve_for_order", r.err)
        /\ UNCHANGED <<order, repoKind, orderStore, productStore, callerItems>>

SvcReleaseForOrder ==
    LET r == Svc_release_for_order(invStore, order)
    IN  /\ invStore' = r.store
        /\ last' = Call("release_for_order", r.err)
        /\ UNCHANGED <<order, repoKind, orderStore, productStore, callerItems>>

SvcFulfillForOrder ==
    LET r == Svc_fulfill_for_order(invStore, order)
    IN  /\ invStore' = r.store
        /\ last' = Call("fulfill_for_order", r.err)
        /\ UNCHANGED <<order, repoKind, orderStore, productStore, callerItems>>

SvcFulfillItems ==
    \E quantities \in QuantityMaps :
        LET r == Svc_fulfill_items(invStore, quantities)
        IN  /\ invStore' = r.store
            /\ last' = Call("svc_fulfill_items", r.err)
            /\ UNCHANGED <<order, repoKind, orderStore, productStore, callerItems>>

SvcLineShip ==
    \E i \in 1..Len(order.items), qty \in 1..MaxQty :
        LET r == ship(order.items[i], qty)
        IN  /\ order' = [order EXCEPT !.items[i] = r.item]
            /\ last' = Call("ship", r.err)
            /\ UNCHANGED <<repoKind, orderStore, invStore, productStore,
                         callerItems>>

NextService ==
    \/ SvcReserveForOrder
    \/ SvcReleaseForOrder
    \/ SvcFulfillForOrder
    \/ SvcFulfillItems
    \/ SvcLineShip

SpecService == InitService /\ [][NextService]_vars

\* Units of product p the order's lines ask for.
RECURSIVE OrderedQuantity(_, _)
OrderedQuantity(items, p) ==
    IF items = <<>> THEN 0
    ELSE (IF Head(items).product_id = p THEN Head(items).quantity ELSE 0)
         + OrderedQuantity(Tail(items), p)

\* Units of product p the order's lines still have to ship.
RECURSIVE RemainingOf(_, _)
RemainingOf(items, p) ==
    IF items = <<>> THEN 0
    ELSE (IF Head(items).product_id = p
          THEN Head(items).quantity - Head(items).shipped_quantity ELSE 0)
         + RemainingOf(Tail(items), p)

\* C2: reserve_for_order either reserves the quantity of every line item, or
\* fails and leaves every inventory record as it was.
C2_ReserveAllOrNothing ==
    [][last'.op = "reserve_for_order"
         => \/ /\ last'.err = OK
               /\ DOMAIN invStore' = DOMAIN invStore
               /\ \A p \in DOMAIN invStore :
                     /\ invStore'[p].reserved_quantity =
                          invStore[p].reserved_quantity
                            + OrderedQuantity(order.items, p)
                     /\ invStore'[p].total_quantity =
                          invStore[p].total_quantity
            \/ /\ last'.err # OK
               /\ invStore' = invStore]_vars

\* C16: a release_for_order that returns has taken from each product's
\* reserved_quantity exactly the remaining_quantity of the order's lines for
\* it, fully shipped lines contributing nothing; no call of it, returning or
\* raising, changes a total_quantity, and it changes no line item.
C16_ReleaseRemaining ==
    [][last'.op = "release_for_order"
         => /\ DOMAIN invStore' = DOMAIN invStore
            /\ order' = order
            /\ \A p \in DOMAIN invStore :
                  invStore'[p].total_quantity = invStore[p].total_quantity
            /\ last'.err = OK
                  => \A p \in DOMAIN invStore :
                        invStore'[p].reserved_quantity =
                          invStore[p].reserved_quantity
                            - RemainingOf(order.items, p)]_vars

\* C16 witness: a release for an order with one line fully shipped and one
\* line partly shipped, whose stock had been deducted for the shipped units.
C16_Witness ==
    /\ last.op = "release_for_order"
    /\ last.err = OK
    /\ \E i \in 1..Len(order.items) :
          order.items[i].shipped_quantity = order.items[i].quantity
    /\ \E i \in 1..Len(order.items) :
          /\ order.items[i].shipped_quantity > 0
          /\ order.items[i].shipped_quantity < order.items[i].quantity
          /\ order.items[i].product_id \in DOMAIN invStore
          /\ invStore[order.items[i].product_id].reserved_quantity = 0
          /\ invStore[order.items[i].product_id].total_quantity
               = MaxStock - order.items[i].shipped_quantity

\* ------------------------------------------------------------------------
\* SpecFulfilment: an order that is confirmed and reserved, and fulfilment
\* steps run with the order-side call first, each compared with the same
\* step run inventory-side first from the same state.
\* ------------------------------------------------------------------------
Fulfilment ==
    \E quantities \in QuantityMaps :
        LET a == FulfilOrderFirst(order, invStore, quantities)
            b == FulfilInventoryFirst(order, invStore, quantities)
        IN  /\ order' = a.order
            /\ invStore' = a.inv
            /\ last' = [op |-> "fulfilment", id |-> 0, err |-> a.err,
                        calls |-> a.calls, swapped |-> b]
            /\ UNCHANGED <<repoKind, orderStore, productStore, callerItems>>

NextFulfilment ==
    \/ OrderConfirm
    \/ SvcReserveForOrder
    \/ Fulfilment

SpecFulfilment == InitService /\ [][NextFulfilment]_vars

Retried(op, first, err) == [op |-> op, id |-> 0, err |-> err, first |-> first]

RetryOps == {"retry_reserve_for_order", "retry_release_for_order",
             "retry_svc_fulfill_items"}

RetryReserveForOrder ==
    LET r == Svc_reserve_for_order(repoKind, invStore, order)
        s == Svc_reserve_for_order(repoKind, r.store, order)
    IN  /\ r.err # OK
        /\ invStore' = s.store
        /\ last' = Retried("retry_reserve_for_order", r.err, s.err)
        /\ UNCHANGED <<order, repoKind, orderStore, productStore, callerItems>>

RetryReleaseForOrder ==
    LET r == Svc_release_for_order(invStore, order)
        s == Svc_release_for_order(r.store, order)
    IN  /\ r.err # OK
        /\ invStore' = s.store
        /\ last' = Retried("retry_release_for_order", r.err, s.err)
        /\ UNCHANGED <<order, repoKind, orderStore, productStore, callerItems>>

RetrySvcFulfillItems ==
    \E quantities \in QuantityMaps :
        LET r == Svc_fulfill_items(invStore, quantities)
            s == Svc_fulfill_items(r.store, quantities)
        IN  /\ r.err # OK
            /\ invStore' = s.store
            /\ last' = Retried("retry_svc_fulfill_items", r.err, s.err)
            /\ UNCHANGED <<order, repoKind, orderStore, productStore,
                         callerItems>>

NextRetry ==
    \/ SvcReserveForOrder
    \/ SvcReleaseForOrder
    \/ SvcFulfillItems
    \/ SvcLineShip
    \/ RetryReserveForOrder
    \/ RetryReleaseForOrder
    \/ RetrySvcFulfillItems

SpecRetry == InitService /\ [][NextRetry]_vars

\* C24: a service call that failed and is made again with the same argument,
\* nothing else in between, fails again with the same error.
C24_RetryFailsAlike ==
    last.op \in RetryOps => last.err = last.first

\* ------------------------------------------------------------------------
\* SpecHandlers: create / confirm / fulfill / cancel handler calls over the
\* repositories, from an inventory with nothing reserved and no orders
\* ------------------------------------------------------------------------
ItemSpecEntries ==
    {[product_name |-> n, quantity |-> q] : n \in SpecNames, q \in 0..MaxQty}

ItemSpecLists ==
    UNION {[1..n -> ItemSpecEntries] : n \in 0..MaxLines}

\* partial_items of the fulfill handler: one entry under any name, or two
\* entries under the names of two catalog products.
PartialEntries ==
    {[product_name |-> n, qty |-> q] : n \in SpecNames, q \in 0..MaxQty}

PartialItems ==
    {<<>>} \cup {<<e>> : e \in PartialEntries}
           \cup {s \in {<<e, f>> : e \in PartialEntries, f \in PartialEntries} :
                    /\ ProductsNamed(s[1].product_name) # {}
                    /\ ProductsNamed(s[2].product_name) # {}
                    /\ s[1].product_name # s[2].product_name}

\* Inventory stores the handlers start from: a product has no record, or a
\* record with the full stock and nothing reserved.
HandlerStores ==
    UNION {[ps -> {InventoryItem(MaxStock, 0)}] : ps \in SUBSET Products}

\* Order ids a caller can name: the stored ones and one that does not exist.
OrderIds == 1..(Len(orderStore) + 1)

InitHandlers ==
    /\ productStore = Catalog
    /\ callerItems = <<>>
    /\ order = NoOrder
    /\ repoKind \in RepoKinds
    /\ orderStore = <<>>
    /\ invStore \in HandlerStores
    /\ last = Call("new", OK)

CreateOrder ==
    /\ Len(orderStore) < MaxOrders
    /\ \E customer_name \in CustomerNames, item_specs \in ItemSpecLists :
          LET r == CreateOrderHandler_handle(repoKind, productStore,
                                             orderStore, invStore,
                                             customer_name, item_specs)
          IN  /\ orderStore' = r.orders
              /\ invStore' = r.inv
              /\ last' = CallOn("create_order", Len(r.orders), r.err)
              /\ UNCHANGED <<order, repoKind, productStore, callerItems>>

ConfirmOrder ==
    \E order_id \in OrderIds :
        LET r == ConfirmOrderHandler_handle(repoKind, orderStore, invStore,
                                            order_id)
        IN  /\ orderStore' = r.orders
            /\ invStore' = r.inv
            /\ last' = CallOn("confirm_order", order_id, r.err)
            /\ UNCHANGED <<order, repoKind, productStore, callerItems>>

FulfillOrder ==
    \E order_id \in OrderIds :
        LET r == FulfillOrderHandler_handle(repoKind, orderStore, invStore,
                                            order_id, FALSE, <<>>)
        IN  /\ orderStore' = r.orders
            /\ invStore' = r.inv
            /\ last' = CallOn("fulfill_order", order_id, r.err)
            /\ UNCHANGED <<order, repoKind, productStore, callerItems>>

PartialFulfillOrder ==
    \E order_id \in OrderIds, partial_items \in PartialItems :
        LET r == FulfillOrderHandler_handle(repoKind, orderStore, invStore,
                                            order_id, TRUE, partial_items)
        IN  /\ orderStore' = r.orders
            /\ invStore' = r.inv
            /\ last' = CallOn("fulfill_order_partial", order_id, r.err)
            /\ UNCHANGED <<order, repoKind, productStore, callerItems>>

CancelOrder ==
    \E order_id \in OrderIds :
        LET r == CancelOrderHandler_handle(repoKind, orderStore, invStore,
                                           order_id)
        IN  /\ orderStore' = r.orders
            /\ invStore' = r.inv
            /\ last' = CallOn("cancel_order", order_id, r.err)
            /\ UNCHANGED <<order, repoKind, productStore, callerItems>>

NextHandlers ==
    \/ CreateOrder
    \/ ConfirmOrder
    \/ FulfillOrder
    \/ PartialFulfillOrder
    \/ CancelOrder

SpecHandlers == InitHandlers /\ [][NextHandlers]_vars

\* The orders as get_by_id hands them out.
StoredOrder(i) ==
    IF repoKind = JSON THEN to_domain(orderStore[i]) ELSE orderStore[i]

RECURSIVE OpenRemaining(_, _)
OpenRemaining(i, p) ==
    IF i = 0 THEN 0
    ELSE (IF StoredOrder(i).status \in {CONFIRMED, PARTIALLY_FULFILLED}
          THEN RemainingOf(StoredOrder(i).items, p) ELSE 0)
         + OpenRemaining(i - 1, p)

\* C1: each product's reserved_quantity equals the sum of remaining_quantity
\* over that product's lines in the CONFIRMED and PARTIALLY_FULFILLED orders.
C1_ReservedMatchesOpenOrders ==
    \A p \in DOMAIN invStore :
        invStore[p].reserved_quantity = OpenRemaining(Len(orderStore), p)

\* Units of product p the order's lines have shipped.
RECURSIVE ShippedOf(_, _)
ShippedOf(items, p) ==
    IF items = <<>> THEN 0
    ELSE (IF Head(items).product_id = p
          THEN Head(items).shipped_quantity ELSE 0)
         + ShippedOf(Tail(items), p)

\* C17: after a confirm handler call that succeeds, the stored order is
\* CONFIRMED, every product's reserved_quantity has grown by exactly the
\* quantity the order's lines ask of it, and no total_quantity has changed.
C17_ConfirmReserves ==
    [][(last'.op = "confirm_order" /\ last'.err = OK)
         => LET before == get_by_id(repoKind, orderStore, last'.id)
                after == get_by_id(repoKind, orderStore', last'.id)
            IN  /\ before.status = DRAFT
                /\ after.status = CONFIRMED
                /\ DOMAIN invStore' = DOMAIN invStore
                /\ \A p \in DOMAIN invStore :
                      /\ invStore'[p].reserved_quantity =
                           invStore[p].reserved_quantity
                             + OrderedQuantity(before.items, p)
                      /\ invStore'[p].total_quantity =
                           invStore[p].total_quantity]_vars

\* C18: after a confirm handler call on a DRAFT order that fails in the
\* reservation (a line asks more than is available, or a product has no
\* inventory record), the stored order is still DRAFT and every inventory
\* record is as it was.
C18_FailedConfirmChangesNothing ==
    [][(/\ last'.op = "confirm_order"
        /\ last'.err # OK
        /\ HasOrder(orderStore, last'.id)
        /\ get_by_id(repoKind, orderStore, last'.id).status = DRAFT)
         => /\ get_by_id(repoKind, orderStore', last'.id).status = DRAFT
            /\ invStore' = invStore]_vars

\* C19: after a fulfill handler call that succeeds, the order was CONFIRMED
\* or PARTIALLY_FULFILLED, something was shipped, for every product the
\* shipped_quantity of the stored order's lines has grown by the units q the
\* inventory's total_quantity and reserved_quantity have each shrunk by, and
\* the stored order is FULFILLED if every line is fully shipped and
\* PARTIALLY_FULFILLED otherwise.
C19_FulfillShips ==
    [][(last'.op \in {"fulfill_order", "fulfill_order_partial"}
        /\ last'.err = OK)
         => LET before == get_by_id(repoKind, orderStore, last'.id)
                after == get_by_id(repoKind, orderStore', last'.id)
            IN  /\ before.status \in {CONFIRMED, PARTIALLY_FULFILLED}
                /\ DOMAIN invStore' = DOMAIN invStore
                /\ \E p \in DOMAIN invStore :
                      invStore'[p].total_quantity < invStore[p].total_quantity
                /\ \A p \in DOMAIN invStore :
                      LET q == invStore[p].total_quantity
                                 - invStore'[p].total_quantity
                      IN  /\ q >= 0
                          /\ invStore'[p].reserved_quantity =
                               invStore[p].reserved_quantity - q
                          /\ ShippedOf(after.items, p) =
                               ShippedOf(before.items, p) + q
                /\ after.status =
                     IF \A i \in 1..Len(after.items) :
                           after.items[i].shipped_quantity =
                             after.items[i].quantity
                     THEN FULFILLED ELSE PARTIALLY_FULFILLED]_vars

\* C20: a cancel handler call on a PARTIALLY_FULFILLED order succeeds, sets
\* the stored order CANCELLED with every line's shipped_quantity kept, takes
\* from each product's reserved_quantity exactly what the order's lines had
\* left to ship, and changes no total_quantity.
C20_CancelPartiallyFulfilled ==
    [][(/\ last'.op = "cancel_order"
        /\ HasOrder(orderStore, last'.id)
        /\ get_by_id(repoKind, orderStore, last'.id).status
             = PARTIALLY_FULFILLED)
         => LET before == get_by_id(repoKind, orderStore, last'.id)
                after == get_by_id(repoKind, orderStore', last'.id)
            IN  /\ last'.err = OK
                /\ after.status = CANCELLED
                /\ ShippedQuantities(after) = ShippedQuantities(before)
                /\ DOMAIN invStore' = DOMAIN invStore
                /\ \A p \in DOMAIN invStore :
                      /\ invStore'[p].reserved_quantity =
                           invStore[p].reserved_quantity
                             - RemainingOf(before.items, p)
                      /\ invStore'[p].total_quantity =
                           invStore[p].total_quantity]_vars

\* ------------------------------------------------------------------------
\* SpecCatalog: add-product and update-product on a catalog that starts
\* empty, with orders created, confirmed, fulfilled and cancelled in between
\* ------------------------------------------------------------------------
\* Names and prices (in cents) handed to add-product and update-product.
NewProductNames == {"Widget", "widget", " Widget ", "Gadget", ""}

NewPrices == {0 - 100, 500, 1500}

UpdatedPrices == {0, 500, 1500}

ProductIds == {ToString(n) : n \in 1..(MaxProducts + 1)}

InitCatalog ==
    /\ productStore = <<>>
    /\ callerItems = <<>>
    /\ order = NoOrder
    /\ repoKind \in RepoKinds
    /\ orderStore = <<>>
    /\ invStore = [p \in ProductIds |-> InventoryItem(MaxStock, 0)]
    /\ last = Call("new", OK)

AddProduct ==
    /\ Len(productStore) < MaxProducts
    /\ \E name \in NewProductNames, price \in NewPrices :
          LET r == AddProductHandler_handle(productStore, name, price)
          IN  /\ productStore' = r.products
              /\ last' = CallWith("add_product",
                                  [name |-> name, price |-> price], r.err)
              /\ UNCHANGED <<order, repoKind, orderStore, invStore,
                             callerItems>>

UpdateProduct ==
    \E product_id \in ProductIds, new_price \in UpdatedPrices :
        LET r == UpdateProductHandler_handle(productStore, orderStore,
                                             product_id, new_price)
        IN  /\ productStore' = r.products
            /\ orderStore' = r.orders
            /\ last' = CallWith("update_product",
                                [product_id |-> product_id,
                                 new_price |-> new_price], r.err)
            /\ UNCHANGED <<order, repoKind, invStore, callerItems>>

NextCatalog ==
    \/ AddProduct
    \/ UpdateProduct
    \/ CreateOrder
    \/ ConfirmOrder
    \/ FulfillOrder
    \/ CancelOrder

SpecCatalog == InitCatalog /\ [][NextCatalog]_vars

\* C23: a price update changes no stored order: every line's unit_price and
\* every order total are as before, whatever the order's status.
C23_PriceUpdateKeepsOrders ==
    [][last'.op = "update_product"
         => /\ Len(orderStore') = Len(orderStore)
            /\ \A k \in 1..Len(orderStore) :
                  /\ Len(orderStore'[k].items) = Len(orderStore[k].items)
                  /\ \A j \in 1..Len(orderStore[k].items) :
                        orderStore'[k].items[j].unit_price =
                          orderStore[k].items[j].unit_price
                  /\ SumOfLines(orderStore'[k].items) =
                       SumOfLines(orderStore[k].items)
                  /\ orderStore'[k].status = orderStore[k].status]_vars

\* C23 witness: a price update that went through while a confirmed order
\* holds a line of the product at the old price.
C23_Witness ==
    /\ last.op = "update_product"
    /\ last.err = OK
    /\ \E k \in 1..Len(orderStore) :
          /\ orderStore[k].status = CONFIRMED
          /\ \E j \in 1..Len(orderStore[k].items) :
                /\ orderStore[k].items[j].product_id = last.args.product_id
                /\ orderStore[k].items[j].unit_price # last.args.new_price

\* C27: add-product with a non-blank name and a valid price that matches no
\* existing product's name exactly (case-sensitively) is accepted and adds
\* one product under that name; in particular a name that differs from the
\* existing names only by letter case is accepted.
C27_DuplicateNameIsExactMatch ==
    [][(/\ last'.op = "add_product"
        /\ strip(last'.args.name) # ""
        /\ last'.args.price >= 0
        /\ \A i \in 1..Len(productStore) :
              productStore[i].name # strip(last'.args.name))
         => /\ last'.err = OK
            /\ Len(productStore') = Len(productStore) + 1
            /\ productStore'[Len(productStore')].name
                 = strip(last'.args.name)]_vars

\* ------------------------------------------------------------------------
\* SpecRepo: the order repository on its own. A caller saves new orders, and
\* loads a stored order, changes it or not, and saves it again.
\* ------------------------------------------------------------------------
RepoOrders == {o \in CreatedOrders : Len(o.items) = 1}

RepoChanges == {"none", "confirm", "cancel"}

Changed(o, change) ==
    CASE change = "confirm" -> Order_confirm(o).order
      [] change = "cancel" -> Order_cancel(o).order
      [] OTHER -> o

InitRepo ==
    /\ productStore = Catalog
    /\ callerItems = <<>>
    /\ order \in RepoOrders
    /\ repoKind \in RepoKinds
    /\ orderStore = <<>>
    /\ invStore = [p \in Products |-> InventoryItem(MaxStock, 0)]
    /\ last = Call("new", OK)

RepoSaveNew ==
    /\ Len(orderStore) < MaxSaved
    /\ \E o \in RepoOrders :
          /\ orderStore' = save(repoKind, orderStore, o)
          /\ order' = [o EXCEPT !.id = next_id(orderStore)]
          /\ last' = CallOn("save_new", next_id(orderStore), OK)
    /\ UNCHANGED <<repoKind, invStore, productStore, callerItems>>

RepoSaveLoaded ==
    \E order_id \in 1..Len(orderStore), change \in RepoChanges :
        LET o == Changed(get_by_id(repoKind, orderStore, order_id), change)
        IN  /\ orderStore' = save(repoKind, orderStore, o)
            /\ order' = o
            /\ last' = CallOn("save_loaded", order_id, OK)
            /\ UNCHANGED <<repoKind, invStore, productStore, callerItems>>

NextRepo ==
    \/ RepoSaveNew
    \/ RepoSaveLoaded

SpecRepo == InitRepo /\ [][NextRepo]_vars

\* C26: a save of an order without id stores one more record under the next
\* id, so that the stored ids are 1, 2, 3, ... in the order of creation; a
\* save of an order that has an id keeps the id and replaces that record,
\* and no other record changes in either case.
C26_IdsOnFirstSave ==
    [][/\ \A i \in 1..Len(orderStore') : orderStore'[i].id = i
       /\ \A i \in 1..Len(orderStore) :
             i # last'.id => orderStore'[i] = orderStore[i]
       /\ last'.op = "save_new"
            => /\ Len(orderStore') = Len(orderStore) + 1
               /\ last'.id = Len(orderStore) + 1
               /\ order'.id = last'.id
               /\ get_by_id(repoKind, orderStore', last'.id) = order'
       /\ last'.op = "save_loaded"
            => /\ Len(orderStore') = Len(orderStore)
               /\ order'.id = last'.id
               /\ get_by_id(repoKind, orderStore', last'.id) = order']_vars

C26_Witness ==
    /\ last.op = "save_loaded"
    /\ last.id = 1
    /\ Len(orderStore) = MaxSaved
    /\ orderStore[1].status = CANCELLED
    /\ orderStore[2].status = CONFIRMED
    /\ orderStore[MaxSaved].status = DRAFT

\* ------------------------------------------------------------------------
\* SpecMoney: Money values and their arithmetic. A Decimal is a finite
\* amount in cents or one of the two infinities, which Decimal(str(amount))
\* yields for "Infinity" and "-Infinity".
\* ------------------------------------------------------------------------
InvalidOperation == "InvalidOperation"

Finite(n) == [kind |-> "finite", cents |-> n]
Infinity == [kind |-> "Infinity", cents |-> 0]
NegInfinity == [kind |-> "-Infinity", cents |-> 0]

Decimals == {Finite(n) : n \in (0 - 1)..MaxCents} \cup {Infinity, NegInfinity}

Currencies == {"USD", "EUR"}

\* Decimal < 0
dec_negative(d) == d = NegInfinity \/ (d.kind = "finite" /\ d.cents < 0)

\* Decimal + Decimal
dec_add(x, y) ==
    CASE x.kind = "finite" /\ y.kind = "finite" ->
             [value |-> Finite(x.cents + y.cents), err |-> OK]
      [] x.kind = "finite" -> [value |-> y, err |-> OK]
      [] y.kind = "finite" -> [value |-> x, err |-> OK]
      [] x = y -> [value |-> x, err |-> OK]
      [] OTHER -> [value |-> x, err |-> InvalidOperation]

dec_negate(d) ==
    CASE d.kind = "finite" -> Finite(0 - d.cents)
      [] d = Infinity -> NegInfinity
      [] OTHER -> Infinity

\* Decimal - Decimal
dec_sub(x, y) == dec_add(x, dec_negate(y))

\* Money(amount, currency) with __post_init__
Money(amount, currency) ==
    [money |-> [amount |-> amount, currency |-> currency],
     err |-> IF dec_negative(amount) THEN ValidationError ELSE OK]

\* Money.__add__
Money_add(a, b) ==
    IF a.currency # b.currency THEN [money |-> a, err |-> ValidationError]
    ELSE LET r == dec_add(a.amount, b.amount)
         IN  IF r.err # OK THEN [money |-> a, err |-> r.err]
             ELSE Money(r.value, a.currency)

\* Money.__sub__
Money_sub(a, b) ==
    IF a.currency # b.currency THEN [money |-> a, err |-> ValidationError]
    ELSE LET r == dec_sub(a.amount, b.amount)
         IN  IF r.err # OK THEN [money |-> a, err |-> r.err]
             ELSE IF dec_negative(r.value)
                  THEN [money |-> a, err |-> ValidationError]
             ELSE Money(r.value, a.currency)

\* The Money values that can be constructed.
MoneyValues ==
    {Money(d, c).money : <<d, c>> \in {x \in Decimals \X Currencies :
                                          Money(x[1], x[2]).err = OK}}

Computed(op, a, b, r) ==
    [op |-> op, id |-> 0, err |-> r.err, a |-> a, b |-> b, result |-> r.money]

InitMoney ==
    /\ productStore = Catalog
    /\ callerItems = <<>>
    /\ order = Order_create("Alice", <<OrderLineItem("1", "Widget", 2, 500)>>).order
    /\ repoKind = FAKE
    /\ orderStore = <<>>
    /\ invStore = [p \in Products |-> InventoryItem(MaxStock, 0)]
    /\ \E a \in MoneyValues, b \in MoneyValues :
          last = Computed("values", a, b, [money |-> a, err |-> OK])

MoneyAdd ==
    /\ last.op = "values"
    /\ last' = Computed("add", last.a, last.b, Money_add(last.a, last.b))
    /\ UNCHANGED <<order, repoKind, orderStore, invStore, productStore,
                   callerItems>>

MoneySub ==
    /\ last.op = "add"
    /\ last.err = OK
    /\ last' = Computed("sub", last.a, last.b, Money_sub(last.result, last.b))
    /\ UNCHANGED <<order, repoKind, orderStore, invStore, productStore,
                   callerItems>>

NextMoney ==
    \/ MoneyAdd
    \/ MoneySub

SpecMoney == InitMoney /\ [][NextMoney]_vars

\* C28: for Money values a and b of one currency, (a + b) - b succeeds and
\* equals a.
C28_AddThenSubtract ==
    (last.op = "sub" /\ last.a.currency = last.b.currency)
        => /\ last.err = OK
           /\ last.result = last.a

\* ------------------------------------------------------------------------
\* SpecAlias: the caller of Order.create keeps the list and the line-item
\* objects it passed in. callerItems is the caller's list; an element with
\* ref = k > 0 is the very object at position k of the order's items, an
\* element with ref = 0 is an object only the caller holds, with value own.
\* ------------------------------------------------------------------------
\* Order.create stores list(items): a new list of the same objects.
SharedItems(items) == [i \in 1..Len(items) |-> [ref |-> i, own |-> items[i]]]

CallerItem(i) ==
    IF callerItems[i].ref > 0 THEN order.items[callerItems[i].ref]
    ELSE callerItems[i].own

RemoveAt(seq, i) == SubSeq(seq, 1, i - 1) \o SubSeq(seq, i + 1, Len(seq))

InitAlias ==
    /\ productStore = Catalog
    /\ order \in CreatedOrders
    /\ callerItems = SharedItems(order.items)
    /\ repoKind = FAKE
    /\ orderStore = <<>>
    /\ invStore = [p \in Products |-> InventoryItem(MaxStock, 0)]
    /\ last = Call("create", OK)

CallerAppend ==
    /\ Len(callerItems) < MaxLines
    /\ \E l \in LineChoices :
          /\ callerItems' = Append(callerItems, [ref |-> 0, own |-> l])
          /\ last' = Call("caller_append", OK)
    /\ UNCHANGED <<order, repoKind, orderStore, invStore, productStore>>

CallerRemove ==
    \E i \in 1..Len(callerItems) :
        /\ callerItems' = RemoveAt(callerItems, i)
        /\ last' = Call("caller_remove", OK)
        /\ UNCHANGED <<order, repoKind, orderStore, invStore, productStore>>

CallerShip ==
    \E i \in 1..Len(callerItems), qty \in QtyInputs :
        LET r == ship(CallerItem(i), qty)
            k == callerItems[i].ref
        IN  /\ order' = IF k > 0 THEN [order EXCEPT !.items[k] = r.item]
                        ELSE order
            /\ callerItems' = IF k > 0 THEN callerItems
                              ELSE [callerItems EXCEPT ![i].own = r.item]
            /\ last' = Call("caller_ship", r.err)
            /\ UNCHANGED <<repoKind, orderStore, invStore, productStore>>

NextAlias ==
    \/ CallerAppend
    \/ CallerRemove
    \/ CallerShip

SpecAlias == InitAlias /\ [][NextAlias]_vars

\* C29: nothing the caller does through the list or the line items it passed
\* to Order.create changes the order's items, shipped quantities or total.
C29_OrderOwnsItems ==
    [][last'.op \in {"caller_append", "caller_remove", "caller_ship"}
         => /\ order'.items = order.items
            /\ SumOfLines(order'.items) = SumOfLines(order.items)]_vars

\* ------------------------------------------------------------------------
\* SpecFulfillItems: Order.fulfill_items called in every status, with the
\* quantity map and the error text of each call on record.
\* ------------------------------------------------------------------------
FulfillItemsCall ==
    \E quantities \in QuantityMaps :
        LET r == Order_fulfill_items(order, quantities)
        IN  /\ order' = r.order
            /\ last' = [op |-> "fulfill_items_call", id |-> 0, err |-> r.err,
                        args |-> quantities, msg |-> r.msg]
            /\ UNCHANGED <<repoKind, orderStore, invStore, productStore,
                           callerItems>>

NextFulfillItems ==
    \/ OrderConfirm
    \/ OrderCancel
    \/ FulfillItemsCall

SpecFulfillItems == InitOrder /\ [][NextFulfillItems]_vars

\* C30: fulfill_items on a FULFILLED order fails with "Order already
\* fulfilled", on a DRAFT or CANCELLED order with a message naming the
\* status, and with an empty quantity map it fails (on an order that can be
\* fulfilled with "Must specify at least one item to fulfill"); in each case
\* the order's line items and status are as before the call.
C30_PreconditionsBeforeShipping ==
    [][last'.op = "fulfill_items_call"
         => /\ order.status = FULFILLED
                 => /\ last'.err = ValidationError
                    /\ last'.msg = "Order already fulfilled"
                    /\ order' = order
            /\ order.status \in {DRAFT, CANCELLED}
                 => /\ last'.err = ValidationError
                    /\ last'.msg
                         = "Cannot fulfill order in " \o order.status \o " status"
                    /\ order' = order
            /\ last'.args = <<>>
                 => /\ last'.err = ValidationError
                    /\ order' = order
                    /\ order.status \in {CONFIRMED, PARTIALLY_FULFILLED}
                         => last'.msg
                              = "Must specify at least one item to fulfill"]_vars

C30_Witness ==
    /\ last.op = "fulfill_items_call"
    /\ last.err = ValidationError
    /\ last.msg = "Order already fulfilled"
    /\ order.status = FULFILLED
    /\ last.args # <<>>
    /\ \A i \in 1..Len(last.args) :
          /\ find_item(order.items, last.args[i].product_id) # 0
          /\ last.args[i].qty > 0

\* The first line with the product id (the line _find_item returns), 0 if
\* the order has none.
FirstLineOf(items, product_id) ==
    LET S == {i \in 1..Len(items) : items[i].product_id = product_id}
    IN  IF S = {} THEN 0 ELSE CHOOSE i \in S : \A j \in S : i <= j

\* An entry of the quantity map that cannot be shipped.
EntryFails(items, e) ==
    LET i == FirstLineOf(items, e.product_id)
    IN  \/ i = 0
        \/ e.qty <= 0
        \/ e.qty > items[i].quantity - items[i].shipped_quantity

\* What the entries before position k ship on line i.
ShippedBefore(items, quantities, k, i) ==
    IF \E j \in 1..(k - 1) :
          FirstLineOf(items, quantities[j].product_id) = i
    THEN quantities[CHOOSE j \in 1..(k - 1) :
             FirstLineOf(items, quantities[j].product_id) = i].qty
    ELSE 0

SvcFulfillItemsCall ==
    \E quantities \in QuantityMaps :
        LET r == Svc_fulfill_items(invStore, quantities)
        IN  /\ invStore' = r.store
            /\ last' = [op |-> "svc_fulfill_items_call", id |-> 0,
                        err |-> r.err, args |-> quantities,
                        before |-> invStore]
            /\ UNCHANGED <<order, repoKind, orderStore, productStore,
                           callerItems>>

NextPartial ==
    \/ SvcReserveForOrder
    \/ SvcReleaseForOrder
    \/ SvcFulfillItemsCall

InitPartial ==
    /\ productStore = Catalog
    /\ callerItems = <<>>
    /\ order \in CreatedOrders
    /\ repoKind = JSON
    /\ orderStore = <<>>
    /\ invStore \in InitialStores
    /\ last = Call("new", OK)

SpecPartial == InitPartial /\ [][NextPartial]_vars

\* A line that release_for_order cannot release, the lines before it done.
ReleaseFails(store, items, n) ==
    LET p == items[n].product_id
        qty == items[n].quantity - items[n].shipped_quantity
    IN  /\ qty > 0
        /\ \/ p \notin DOMAIN store
           \/ qty > store[p].reserved_quantity
                      - RemainingOf(SubSeq(items, 1, n - 1), p)

\* An entry that the service's fulfill_items cannot deduct.
DeductionFails(store, e) ==
    \/ e.product_id \notin DOMAIN store
    \/ e.qty <= 0
    \/ e.qty > store[e.product_id].reserved_quantity

\* What the entries before position k deduct from product p.
DeductedBefore(quantities, k, p) ==
    IF \E j \in 1..(k - 1) : quantities[j].product_id = p
    THEN quantities[CHOOSE j \in 1..(k - 1) :
                        quantities[j].product_id = p].qty
    ELSE 0

\* C32: when a line of release_for_order or an entry of the service's
\* fulfill_items fails, the call raises and the repository holds the
\* releases or deductions of the lines before the first failing one, and
\* nothing else has changed.
C32_EarlierLinesStaySaved ==
    [][/\ (/\ last'.op = "release_for_order"
           /\ \E n \in 1..Len(order.items) :
                 ReleaseFails(invStore, order.items, n))
            => LET k == CHOOSE n \in 1..Len(order.items) :
                           /\ ReleaseFails(invStore, order.items, n)
                           /\ \A m \in 1..(n - 1) :
                                 ~ReleaseFails(invStore, order.items, m)
               IN  /\ last'.err =
                         IF order.items[k].product_id \in DOMAIN invStore
                         THEN ValidationError ELSE EntityNotFoundError
                   /\ DOMAIN invStore' = DOMAIN invStore
                   /\ \A p \in DOMAIN invStore :
                         invStore'[p] =
                             [invStore[p] EXCEPT !.reserved_quantity =
                                 @ - RemainingOf(
                                         SubSeq(order.items, 1, k - 1), p)]
       /\ (/\ last'.op = "svc_fulfill_items_call"
           /\ \E n \in 1..Len(last'.args) :
                 DeductionFails(invStore, last'.args[n]))
            => LET q == last'.args
                   k == CHOOSE n \in 1..Len(q) :
                           /\ DeductionFails(invStore, q[n])
                           /\ \A m \in 1..(n - 1) :
                                 ~DeductionFails(invStore, q[m])
               IN  /\ last'.err =
                         IF q[k].product_id \in DOMAIN invStore
                         THEN ValidationError ELSE EntityNotFoundError
                   /\ DOMAIN invStore' = DOMAIN invStore
                   /\ \A p \in DOMAIN invStore :
                         invStore'[p] =
                             [invStore[p] EXCEPT
                                !.reserved_quantity =
                                    @ - DeductedBefore(q, k, p),
                                !.total_quantity =
                                    @ - DeductedBefore(q, k, p)]]_vars

C32_Witness ==
    /\ last.op = "svc_fulfill_items_call"
    /\ last.err # OK
    /\ Len(last.args) = 2
    /\ last.args[1].product_id \in DOMAIN invStore
    /\ invStore[last.args[1].product_id].total_quantity
         = last.before[last.args[1].product_id].total_quantity
             - last.args[1].qty
    /\ last.args[1].qty > 0

\* A line that phase 1 of reserve_for_order rejects.
LineOffends(store, line) ==
    \/ line.product_id \notin DOMAIN store
    \/ line.quantity > store[line.product_id].total_quantity
                         - store[line.product_id].reserved_quantity

\* C33: reserve_for_order raises for the first line, in the order of the
\* lines, whose product has no inventory record (EntityNotFoundError) or
\* whose ordered quantity is above the record's available quantity
\* (ValidationError); it returns only if no line is such a line.
C33_FirstOffendingLine ==
    [][last'.op = "reserve_for_order"
         => /\ (\E n \in 1..Len(order.items) :
                    LineOffends(invStore, order.items[n]))
                 => LET k == CHOOSE n \in 1..Len(order.items) :
                               /\ LineOffends(invStore, order.items[n])
                               /\ \A m \in 1..(n - 1) :
                                     ~LineOffends(invStore, order.items[m])
                    IN  last'.err =
                            IF order.items[k].product_id \in DOMAIN invStore
                            THEN ValidationError ELSE EntityNotFoundError
            /\ last'.err = OK
                 => \A n \in 1..Len(order.items) :
                       ~LineOffends(invStore, order.items[n])]_vars

C33_Witness ==
    /\ last.op = "reserve_for_order"
    /\ last.err = ValidationError
    /\ Len(order.items) = 2
    /\ order.items[1].product_id \in DOMAIN invStore
    /\ order.items[1].quantity
         > invStore[order.items[1].product_id].total_quantity
             - invStore[order.items[1].product_id].reserved_quantity
    /\ invStore[order.items[1].product_id].reserved_quantity = 0
    /\ order.items[2].product_id \notin DOMAIN invStore

\* ------------------------------------------------------------------------
\* SpecShip: ship called on the line items of an order, with the line and the
\* quantity of each call on record.
\* ------------------------------------------------------------------------
LineShipCall ==
    \E i \in 1..Len(order.items), qty \in QtyInputs :
        LET r == ship(order.items[i], qty)
        IN  /\ order' = [order EXCEPT !.items[i] = r.item]
            /\ last' = CallWith("ship_call", [index |-> i, qty |-> qty],
                                r.err)
            /\ UNCHANGED <<repoKind, orderStore, invStore, productStore,
                           callerItems>>

NextShip ==
    \/ OrderConfirm
    \/ LineShipCall

SpecShip == InitOrder /\ [][NextShip]_vars

\* C34: ship(qty) raises ValidationError and leaves the item as it was when
\* qty <= 0 or qty is above the remaining quantity; otherwise it adds qty to
\* shipped_quantity and changes nothing else.
C34_Ship ==
    [][last'.op = "ship_call"
         => LET i == last'.args.index
                qty == last'.args.qty
                item == order.items[i]
            IN  IF qty <= 0 \/ qty > item.quantity - item.shipped_quantity
                THEN /\ last'.err = ValidationError
                     /\ order' = order
                ELSE /\ last'.err = OK
                     /\ order' = [order EXCEPT
                                    !.items[i].shipped_quantity = @ + qty]]_vars

C34_Witness ==
    /\ last.op = "ship_call"
    /\ last.err = OK
    /\ last.args.qty = 1
    /\ order.items[last.args.index].quantity = MaxQty
    /\ order.items[last.args.index].shipped_quantity = MaxQty

\* C35: a confirm handler call on a stored order that is not DRAFT is
\* rejected and leaves every inventory record as it was.
C35_RejectedConfirmKeepsInventory ==
    [][(/\ last'.op = "confirm_order"
        /\ HasOrder(orderStore, last'.id)
        /\ get_by_id(repoKind, orderStore, last'.id).status # DRAFT)
         => /\ last'.err # OK
            /\ invStore' = invStore]_vars

\* C36: a reserve_for_order that returns has added to each product's
\* reserved_quantity the ordered quantities of all the order's lines for it,
\* two lines of one product counting both, and no record holds more reserved
\* than its total.
C36_ReserveAddsLineSum ==
    [][(last'.op = "reserve_for_order" /\ last'.err = OK)
         => \A p \in DOMAIN invStore' :
               /\ p \in DOMAIN invStore
               /\ invStore'[p].reserved_quantity - invStore[p].reserved_quantity
                    = OrderedQuantity(order.items, p)
               /\ invStore'[p].reserved_quantity
                    <= invStore'[p].total_quantity]_vars

\* ------------------------------------------------------------------------
\* SpecLifecycle: an order created with nothing shipped, and the calls that
\* move it on: confirm, fulfill_items, fulfill and cancel, whether they
\* return or raise.
\* ------------------------------------------------------------------------
NextLifecycle ==
    \/ OrderConfirm
    \/ FulfillItemsCall
    \/ OrderFulfill
    \/ OrderCancel

SpecLifecycle == InitOrder /\ [][NextLifecycle]_vars

\* C37: an order that is not CANCELLED is FULFILLED exactly when every line
\* is fully shipped, and a DRAFT or CONFIRMED order has shipped nothing.
C37_FulfilledIffAllShipped ==
    order.status # CANCELLED
        => /\ order.status = FULFILLED
                <=> \A i \in 1..Len(order.items) :
                       order.items[i].shipped_quantity
                           = order.items[i].quantity
           /\ order.status \in {DRAFT, CONFIRMED}
                => \A i \in 1..Len(order.items) :
                      order.items[i].shipped_quantity = 0

\* Units of product p shipped by the lines of the first i stored orders.
RECURSIVE ShippedByOrders(_, _)
ShippedByOrders(i, p) ==
    IF i = 0 THEN 0
    ELSE ShippedOf(orderStore[i].items, p) + ShippedByOrders(i - 1, p)

\* C38: with the in-memory repositories, what has left each product's
\* total_quantity since the start is the sum of shipped_quantity over the
\* stored orders' lines for that product.
C38_StockLeftIsShipped ==
    repoKind = FAKE
        => \A p \in DOMAIN invStore :
              MaxStock - invStore[p].total_quantity
                  = ShippedByOrders(Len(orderStore), p)

\* ------------------------------------------------------------------------
\* SpecRoundTrip: an order that is confirmed, shipped from and cancelled, and
\* saved to the JSON order repository along the way.
\* ------------------------------------------------------------------------
InitRoundTrip ==
    /\ productStore = Catalog
    /\ callerItems = <<>>
    /\ order \in CreatedOrders
    /\ repoKind = JSON
    /\ orderStore = <<>>
    /\ invStore = [p \in Products |-> InventoryItem(MaxStock, 0)]
    /\ last = Call("create", OK)

OrderSave ==
    LET id == IF order.id = 0 THEN next_id(orderStore) ELSE order.id
    IN  /\ orderStore' = save(repoKind, orderStore, order)
        /\ order' = [order EXCEPT !.id = id]
        /\ last' = CallOn("save", id, OK)
        /\ UNCHANGED <<repoKind, invStore, productStore, callerItems>>

NextRoundTrip ==
    \/ OrderConfirm
    \/ OrderFulfillItems
    \/ OrderCancel
    \/ OrderSave

SpecRoundTrip == InitRoundTrip /\ [][NextRoundTrip]_vars

\* C39: the order that get_by_id loads after a save has the status, the
\* line items and each line's shipped_quantity of the order that was saved.
C39_SaveThenLoad ==
    last.op = "save"
        => LET loaded == get_by_id(repoKind, orderStore, last.id)
           IN  /\ loaded.status = order.status
               /\ Len(loaded.items) = Len(order.items)
               /\ \A i \in 1..Len(order.items) :
                     /\ loaded.items[i] = order.items[i]
                     /\ loaded.items[i].shipped_quantity
                          = order.items[i].shipped_quantity

====
